---- MODULE Spec2Model ----
(***************************************************************************)
(* A model of the kiota-http-go request adapter (nethttp_request_adapter.go), *)
(* of its middleware handlers (retry, redirect, compression, parameter-name *)
(* decoding, url-replace, user-agent, chaos) and of the pipeline that runs  *)
(* them.                                                                    *)
(*                                                                          *)
(* Strings that the code inspects character by character (the              *)
(* WWW-Authenticate header) are sequences of one-character strings; map     *)
(* keys and type names that the code only compares are TLA+ strings.        *)
(***************************************************************************)
EXTENDS Integers, Sequences, FiniteSets, TLC

(***************************************************************************)
(* String helpers: the Go library functions the adapter calls.             *)
(***************************************************************************)

UpperChars ==
    <<"A", "B", "C", "D", "E", "F", "G", "H", "I", "J", "K", "L", "M", "N", "O", "P", "Q", "R", "S", "T", "U", "V", "W", "X", "Y", "Z">>

LowerChars ==
    <<"a", "b", "c", "d", "e", "f", "g", "h", "i", "j", "k", "l", "m", "n", "o", "p", "q", "r", "s", "t", "u", "v", "w", "x", "y", "z">>

FoldCase(s) ==
    LET
        \* Case folding of one character, as the (?i) flag of reBearer does.
        FoldChar(c) ==
            IF \E i \in 1..26 : UpperChars[i] = c
            THEN LowerChars[CHOOSE i \in 1..26 : UpperChars[i] = c]
            ELSE c
    IN
        [i \in 1..Len(s) |-> FoldChar(s[i])]

\* strings.HasPrefix
HasPrefix(s, prefix) ==
    /\ Len(s) >= Len(prefix)
    /\ SubSeq(s, 1, Len(prefix)) = prefix

\* strings.Trim(s, " "): strips leading and trailing spaces.
RECURSIVE TrimLeft(_)
TrimLeft(s) ==
    IF s # <<>> /\ s[1] = " " THEN TrimLeft(Tail(s)) ELSE s

RECURSIVE TrimRight(_)
TrimRight(s) ==
    IF s # <<>> /\ s[Len(s)] = " " THEN TrimRight(SubSeq(s, 1, Len(s) - 1)) ELSE s

Trim(s) ==
    TrimRight(TrimLeft(s))

\* Index of the first occurrence of character c in s at or after from; 0 if none.
RECURSIVE IndexFrom(_, _, _)
IndexFrom(s, c, from) ==
    IF from > Len(s) THEN 0
    ELSE IF s[from] = c THEN from
    ELSE IndexFrom(s, c, from + 1)

\* strings.Split(s, sep) for a one-character separator: always at least
\* one element.
RECURSIVE Split(_, _)
Split(s, sep) ==
    LET i == IndexFrom(s, sep, 1)
    IN IF i = 0 THEN <<s>>
       ELSE <<SubSeq(s, 1, i - 1)>> \o Split(SubSeq(s, i + 1, Len(s)), sep)

Digits ==
    <<"0", "1", "2", "3", "4", "5", "6", "7", "8", "9">>

\* strconv.Itoa for a non-negative integer.
RECURSIVE Itoa(_)
Itoa(n) ==
    IF n < 10 THEN Digits[n + 1]
    ELSE Itoa(n \div 10) \o Digits[(n % 10) + 1]

claimsKey ==
    <<"c", "l", "a", "i", "m", "s">>

BearerChars ==
    <<"b", "e", "a", "r", "e", "r">>

\* reBearer = (?i)^Bearer\s  -- reBearer.Match
reBearerMatch(s) ==
    LET
        \* The characters the regular expression class \s matches.
        WhitespaceChars ==
            {" ", "\t", "\n", "\r", "\f"}
    IN
        /\ Len(s) >= 7
        /\ FoldCase(SubSeq(s, 1, 6)) = BearerChars
        /\ s[7] \in WhitespaceChars

\* reClaims = \"([^\"]*)\"  -- reClaims.FindStringSubmatch(s).
\* The result is the slice of submatches: <<>> models nil (no match),
\* otherwise <<whole match, group 1>>.
reClaimsFindStringSubmatch(s) ==
    LET q1 == IndexFrom(s, "\"", 1)
        q2 == IF q1 = 0 THEN 0 ELSE IndexFrom(s, "\"", q1 + 1)
    IN IF q1 = 0 \/ q2 = 0 THEN <<>>
       ELSE <<SubSeq(s, q1, q2), SubSeq(s, q1 + 1, q2 - 1)>>

(***************************************************************************)
(* WWW-Authenticate header values the server may send.                      *)
(***************************************************************************)

\* Bearer realm="", claims="eyJ"   (the shape used by TestItRetriesOnCAEResponse)
HdrChallenge ==
    <<"B", "e", "a", "r", "e", "r", " ", "r", "e", "a", "l", "m", "=", "\"", "\"", ",", " ", "c", "l", "a", "i", "m", "s", "=", "\"", "e", "y", "J", "\"">>

(***************************************************************************)
(* Responses.  body is the content the server sent, unread the part of it  *)
(* not yet read from the body stream (ioutil.ReadAll leaves it empty),      *)
(* closed is set by Body.Close.                                             *)
(***************************************************************************)

BodyEmpty ==
    <<>>

ServerResponses ==
    LET
        \* header absent: Header.Get returns ""
        HdrNone ==
            <<>>
        CtJson ==
            <<"A", "/", "J", ";", "u">>
        BodyData ==
            <<"d">>
        Response(st, h, ct, b) ==
            [status |-> st, wwwAuthenticate |-> h, contentType |-> ct, body |-> b, unread |-> b, closed |-> FALSE]
    IN
        LET
            \* Bearer claims=""
            HdrEmptyClaims ==
                <<"B", "e", "a", "r", "e", "r", " ", "c", "l", "a", "i", "m", "s", "=", "\"", "\"">>
            \* Bearer claims=eyJ
            HdrUnquotedClaims ==
                <<"B", "e", "a", "r", "e", "r", " ", "c", "l", "a", "i", "m", "s", "=", "e", "y", "J">>
            \* Bearer claims_hint="zz"
            HdrClaimsPrefix ==
                <<"B", "e", "a", "r", "e", "r", " ", "c", "l", "a", "i", "m", "s", "_", "h", "i", "n", "t", "=", "\"", "z", "z", "\"">>
            \* Basic claims="eyJ"
            HdrBasic ==
                <<"B", "a", "s", "i", "c", " ", "c", "l", "a", "i", "m", "s", "=", "\"", "e", "y", "J", "\"">>
            AuthenticateHeaders ==
                {HdrNone, HdrChallenge, HdrEmptyClaims, HdrUnquotedClaims, HdrClaimsPrefix, HdrBasic}
            StatusCodes ==
                {200, 204, 401, 404, 500, 600}
            \* Content-Type header values: absent, or "A/J;u" (a media type with a
            \* parameter, in upper case).
            CtNone ==
                <<>>
            ContentTypes ==
                {CtNone, CtJson}
            Bodies ==
                {BodyEmpty, BodyData}
            \* Responses without a WWW-Authenticate header: every status, with and
            \* without a content type and a body.
            PlainResponses ==
                {Response(st, HdrNone, ct, b) : <<st, ct, b>> \in StatusCodes \X ContentTypes \X Bodies}
            \* Responses with a WWW-Authenticate header: a 401 with each header value,
            \* and a 404 with the well-formed challenge to exercise the status test.
            ChallengeResponses ==
                {Response(401, h, CtJson, BodyData) : h \in AuthenticateHeaders \ {HdrNone}}
                \cup {Response(404, HdrChallenge, CtJson, BodyData)}
        IN
            PlainResponses \cup ChallengeResponses

(***************************************************************************)
(* retryCAEResponseIfRequired                                               *)
(***************************************************************************)

\* The loop over the comma-separated parameters.  panic models the index
\* out of range raised by FindStringSubmatch(parameter)[1] on a nil slice.
RECURSIVE ScanParameters(_)
ScanParameters(parameters) ==
    IF parameters = <<>> THEN [panic |-> FALSE, responseClaims |-> <<>>]
    ELSE IF HasPrefix(Trim(Head(parameters)), claimsKey)
         THEN LET m == reClaimsFindStringSubmatch(Head(parameters))
              IN IF Len(m) < 2 THEN [panic |-> TRUE, responseClaims |-> <<>>]
                 ELSE [panic |-> FALSE, responseClaims |-> m[2]]
         ELSE ScanParameters(Tail(parameters))

\* Variant: the guard against a second retry (claims == "") is missing.
caeCandidate_NoOnceGuard(response, claims) ==
    response.status = 401

\* The outer condition: a 401 and no claims passed in yet.
caeCandidate(response, claims) ==
    response.status = 401 /\ claims = <<>>

\* The decision of retryCAEResponseIfRequired: "return" hands the response
\* back, "retry" calls getHttpResponseMessage again with responseClaims,
\* "panic" is the run-time panic.
retryCAEResponseIfRequired(response, claims) ==
    LET
        \* reBearer.ReplaceAll(s, ""): the pattern is anchored, so at most the
        \* leading match is removed.
        reBearerReplaceAll(s) ==
            IF reBearerMatch(s) THEN SubSeq(s, 8, Len(s)) ELSE s
    IN
        LET authenticateHeaderVal == response.wwwAuthenticate
            scan == ScanParameters(Split(reBearerReplaceAll(authenticateHeaderVal), ","))
        IN IF caeCandidate(response, claims)
              /\ authenticateHeaderVal # <<>>
              /\ reBearerMatch(authenticateHeaderVal)
           THEN IF scan.panic THEN [action |-> "panic", responseClaims |-> <<>>]
                ELSE IF scan.responseClaims # <<>>
                     THEN [action |-> "retry", responseClaims |-> scan.responseClaims]
                     ELSE [action |-> "return", responseClaims |-> <<>>]
           ELSE [action |-> "return", responseClaims |-> <<>>]

\* purge: read the body to the end and close it.
purge(response) ==
    [response EXCEPT !.unread = <<>>, !.closed = TRUE]

(***************************************************************************)
(* Errors and results of the Send operations.                               *)
(***************************************************************************)

\* The header fields of a response a caller can observe.
HeadersOf(response) ==
    [wwwAuthenticate |-> response.wwwAuthenticate, contentType |-> response.contentType]

\* A nil header collection.
NoHeaders ==
    [wwwAuthenticate |-> <<>>, contentType |-> <<>>]

\* The nil error.
ErrNil ==
    [type |-> "nil", message |-> "", responseStatusCode |-> 0, responseHeaders |-> NoHeaders, factory |-> ""]

\* errors.New(message), and errors of collaborators (authentication
\* provider, HTTP client, parse node factory, parse node).
PlainError(message) ==
    [type |-> "error", message |-> message, responseStatusCode |-> 0, responseHeaders |-> NoHeaders, factory |-> ""]

\* &abs.ApiError{Message: message}: the other fields keep their zero value.
ApiError(message) ==
    [type |-> "ApiError", message |-> message, responseStatusCode |-> 0, responseHeaders |-> NoHeaders, factory |-> ""]

\* Variant: the class entries are consulted before the exact status.
errorCtorFor_ClassFirst(statusCode, errorMappings) ==
    LET statusAsString == Itoa(statusCode)
    IN IF Cardinality(errorMappings) # 0
       THEN IF statusCode >= 400 /\ statusCode < 500 /\ "4XX" \in errorMappings THEN "4XX"
            ELSE IF statusCode >= 500 /\ statusCode < 600 /\ "5XX" \in errorMappings THEN "5XX"
            ELSE IF statusAsString \in errorMappings THEN statusAsString
            ELSE ""
       ELSE ""

\* The selection of the error factory in throwFailedResponses; "" is nil.
errorCtorFor(statusCode, errorMappings) ==
    LET statusAsString == Itoa(statusCode)
    IN IF Cardinality(errorMappings) # 0
       THEN IF statusAsString \in errorMappings THEN statusAsString
            ELSE IF statusCode >= 400 /\ statusCode < 500 /\ "4XX" \in errorMappings THEN "4XX"
            ELSE IF statusCode >= 500 /\ statusCode < 600 /\ "5XX" \in errorMappings THEN "5XX"
            ELSE ""
       ELSE ""

\* getResponsePrimaryContentType: the part before the first ';', lower-cased.
getResponsePrimaryContentType(response) ==
    FoldCase(Split(response.contentType, ";")[1])

\* getRootParseNode: reads the body; no content type gives a nil node
\* without calling the factory.  node is "nil", "node" or "error".
getRootParseNode(response, parse) ==
    IF getResponsePrimaryContentType(response) = <<>>
    THEN [node |-> "nil", factoryCalls |-> 0]
    ELSE IF parse = "factoryError" THEN [node |-> "error", factoryCalls |-> 1]
    ELSE [node |-> "node", factoryCalls |-> 1]

\* throwFailedResponses: the error for the response (ErrNil for none) and
\* the number of parse node factory calls made.  The factories of an error
\* mapping yield values that implement error, so errValue.(error) succeeds.
throwFailedResponses(response, errorMappings, parse) ==
    LET
        \* The error value deserialized with the factory registered under key.
        FactoryError(key) ==
            [type |-> "factory", message |-> "", responseStatusCode |-> 0, responseHeaders |-> NoHeaders, factory |-> key]
    IN
        LET statusAsString == Itoa(response.status)
            errorCtor == errorCtorFor(response.status, errorMappings)
            root == getRootParseNode(response, parse)
        IN IF response.status < 400 THEN [err |-> ErrNil, factoryCalls |-> 0]
           ELSE IF errorCtor = ""
           THEN [err |-> ApiError("The server returned an unexpected status code and no error factory is registered for this code: " \o statusAsString),
                 factoryCalls |-> 0]
           ELSE IF root.node = "error"
           THEN [err |-> PlainError("GetRootParseNode failed"), factoryCalls |-> root.factoryCalls]
           ELSE IF root.node = "nil"
           THEN [err |-> ApiError("The server returned an unexpected status code with no response body: " \o statusAsString),
                 factoryCalls |-> root.factoryCalls]
           ELSE IF parse = "valueError"
           THEN [err |-> PlainError("GetObjectValue failed"), factoryCalls |-> root.factoryCalls]
           ELSE IF parse = "nilValue"
           THEN [err |-> ApiError("The server returned an unexpected status code but the error could not be deserialized: " \o statusAsString),
                 factoryCalls |-> root.factoryCalls]
           ELSE [err |-> FactoryError(errorCtor), factoryCalls |-> root.factoryCalls]

\* shouldReturnNil
shouldReturnNil(response) ==
    response.status = 204

(***************************************************************************)
(* The seven Send operations.                                               *)
(***************************************************************************)

\* The dynamic type of the value a successful deserialization returns.
ValueKindOf(op, typeName) ==
    CASE op = "SendAsync" -> "Parsable"
      [] op = "SendEnumAsync" -> "enum"
      [] op = "SendCollectionAsync" -> "[]Parsable"
      [] op = "SendEnumCollectionAsync" -> "[]interface{}"
      [] op = "SendPrimitiveAsync" -> typeName
      [] op = "SendPrimitiveCollectionAsync" -> "[]interface{}"
      [] OTHER -> "nil"

\* The type each operation asserts on the response handler's value:
\* result.(absser.Parsable), result.([]absser.Parsable), result.([]interface{}).
\* SendNoContentAsync discards the value.
AssertedTypeOf(op) ==
    CASE op = "SendAsync" -> "Parsable"
      [] op = "SendEnumAsync" -> "Parsable"
      [] op = "SendCollectionAsync" -> "[]Parsable"
      [] op = "SendEnumCollectionAsync" -> "[]interface{}"
      [] op = "SendPrimitiveAsync" -> "Parsable"
      [] op = "SendPrimitiveCollectionAsync" -> "[]interface{}"
      [] OTHER -> ""

NoResponseHandler ==
    [present |-> FALSE, value |-> "nil", fails |-> FALSE]

HandlerError ==
    PlainError("response handler failed")

\* The branch taken when a response handler is present: what the operation
\* does with the handler's (value, err).  A single-value type assertion on
\* a nil interface value or on a value of another dynamic type panics.
afterResponseHandler(op, handler) ==
    IF op = "SendNoContentAsync"
    THEN [panic |-> FALSE, value |-> "nil", err |-> IF handler.fails THEN HandlerError ELSE ErrNil]
    ELSE IF handler.fails THEN [panic |-> FALSE, value |-> "nil", err |-> HandlerError]
    ELSE IF handler.value = AssertedTypeOf(op) THEN [panic |-> FALSE, value |-> handler.value, err |-> ErrNil]
    ELSE [panic |-> TRUE, value |-> "nil", err |-> ErrNil]

\* The branch taken without a response handler, after throwFailedResponses
\* returned nil: shouldReturnNil, the []byte form, getRootParseNode and the
\* Get...Value call of the operation.
deserialize(op, typeName, response, parse) ==
    LET
        \* The type names the switch of SendPrimitiveAsync knows.
        PrimitiveTypeNames ==
            {"string", "float32", "float64", "int32", "int64", "bool", "Time", "UUID"}
    IN
        LET root == getRootParseNode(response, parse)
        IN IF op = "SendNoContentAsync" THEN [value |-> "nil", err |-> ErrNil, factoryCalls |-> 0]
           ELSE IF shouldReturnNil(response) THEN [value |-> "nil", err |-> ErrNil, factoryCalls |-> 0]
           ELSE IF op = "SendPrimitiveAsync" /\ typeName = "[]byte"
           THEN IF Len(response.unread) = 0 THEN [value |-> "nil", err |-> ErrNil, factoryCalls |-> 0]
                ELSE [value |-> "[]byte", err |-> ErrNil, factoryCalls |-> 0]
           ELSE IF root.node = "error"
           THEN [value |-> "nil", err |-> PlainError("GetRootParseNode failed"), factoryCalls |-> root.factoryCalls]
           ELSE IF root.node = "nil" THEN [value |-> "nil", err |-> ErrNil, factoryCalls |-> root.factoryCalls]
           ELSE IF op = "SendPrimitiveAsync" /\ typeName \notin PrimitiveTypeNames
           THEN [value |-> "nil", err |-> PlainError("unsupported type"), factoryCalls |-> root.factoryCalls]
           ELSE IF parse = "valueError"
           THEN [value |-> "nil", err |-> PlainError("Get...Value failed"), factoryCalls |-> root.factoryCalls]
           ELSE IF parse = "nilValue" THEN [value |-> "nil", err |-> ErrNil, factoryCalls |-> root.factoryCalls]
           ELSE [value |-> ValueKindOf(op, typeName), err |-> ErrNil, factoryCalls |-> root.factoryCalls]

\* The whole branch without a response handler.
processResponse(op, typeName, response, errorMappings, parse) ==
    LET failed == throwFailedResponses(response, errorMappings, parse)
    IN IF failed.err # ErrNil
       THEN [value |-> "nil", err |-> failed.err, factoryCalls |-> failed.factoryCalls]
       ELSE deserialize(op, typeName, response, parse)

\* Variant: the nil check is missing.
rejectsRequestInfo_NoCheck(requestInfoIsNil) ==
    FALSE

\* The nil check at the head of every Send operation.
rejectsRequestInfo(requestInfoIsNil) ==
    requestInfoIsNil

\* additionalContext of getHttpResponseMessage: a map with at most the
\* claims entry, as a set of <<key, value>> pairs.
additionalContextFor(claimsArg) ==
    IF claimsArg # <<>> THEN {<<claimsKey, claimsArg>>} ELSE {}

(***************************************************************************)
(* State of one Send call.                                                  *)
(***************************************************************************)

VARIABLES
    apc,              \* position of the call: idle, authenticate, dispatch, respond, returned, panicked
    sendOp,           \* the Send operation called
    typeName,         \* its typeName argument
    requestInfoNil,   \* whether requestInfo is nil
    responseHandler,  \* the response handler option on the request
    errorMappings,    \* the keys of the errorMappings argument
    claims,           \* the claims argument of the current getHttpResponseMessage
    authCalls,        \* additionalContext of each AuthenticateRequest call
    dispatched,       \* number of httpClient.Do calls
    responses,        \* the responses received, in order
    response,         \* the response getHttpResponseMessage returned: its index in responses, 0 for none
    handlerCalls,     \* arguments of each response handler invocation
    factoryCalls,     \* number of parseNodeFactory.GetRootParseNode calls
    result            \* the (value, err) returned

avars ==
    <<apc, sendOp, typeName, requestInfoNil, responseHandler, errorMappings, claims,
      authCalls, dispatched, responses, response, handlerCalls, factoryCalls, result>>

NoResult ==
    [value |-> "nil", err |-> ErrNil]

AdapterInit ==
    /\ apc = "idle"
    /\ sendOp = ""
    /\ typeName = ""
    /\ requestInfoNil = FALSE
    /\ responseHandler = NoResponseHandler
    /\ errorMappings = {}
    /\ claims = <<>>
    /\ authCalls = <<>>
    /\ dispatched = 0
    /\ responses = <<>>
    /\ response = 0
    /\ handlerCalls = <<>>
    /\ factoryCalls = 0
    /\ result = NoResult

\* A Send operation is called: the nil check, prepareContext and the
\* first call of getHttpResponseMessage with claims "".
SendStart(op, tn, isNil, handler, mappings) ==
    /\ apc = "idle"
    /\ sendOp' = op
    /\ typeName' = tn
    /\ requestInfoNil' = isNil
    /\ responseHandler' = handler
    /\ errorMappings' = mappings
    /\ claims' = <<>>
    /\ IF rejectsRequestInfo(isNil)
       THEN /\ apc' = "returned"
            /\ result' = [value |-> "nil", err |-> PlainError("requestInfo cannot be nil")]
       ELSE /\ apc' = "authenticate"
            /\ result' = result
    /\ UNCHANGED <<authCalls, dispatched, responses, response, handlerCalls, factoryCalls>>

\* The deferred purge of retryCAEResponseIfRequired runs when the nested
\* getHttpResponseMessage returns: every response received before is purged.
PurgeAll(rs) ==
    [i \in 1..Len(rs) |-> purge(rs[i])]

\* getHttpResponseMessage up to AuthenticateRequest.
Authenticate(ok) ==
    /\ apc = "authenticate"
    /\ authCalls' = Append(authCalls, additionalContextFor(claims))
    /\ IF ok
       THEN /\ apc' = "dispatch"
            /\ UNCHANGED <<responses, result>>
       ELSE /\ apc' = "returned"
            /\ responses' = PurgeAll(responses)
            /\ result' = [value |-> "nil", err |-> PlainError("AuthenticateRequest failed")]
    /\ UNCHANGED <<sendOp, typeName, requestInfoNil, responseHandler, errorMappings, claims,
                   dispatched, response, handlerCalls, factoryCalls>>

\* getRequestFromRequestInformation fails (requestInfo.GetUri or
\* NewRequestWithContext): nothing is dispatched.
RequestBuildFails ==
    /\ apc = "dispatch"
    /\ apc' = "returned"
    /\ responses' = PurgeAll(responses)
    /\ result' = [value |-> "nil", err |-> PlainError("getRequestFromRequestInformation failed")]
    /\ UNCHANGED <<sendOp, typeName, requestInfoNil, responseHandler, errorMappings, claims,
                   authCalls, dispatched, response, handlerCalls, factoryCalls>>

\* httpClient.Do returns an error.
DispatchFails ==
    /\ apc = "dispatch"
    /\ dispatched' = dispatched + 1
    /\ apc' = "returned"
    /\ responses' = PurgeAll(responses)
    /\ result' = [value |-> "nil", err |-> PlainError("httpClient.Do failed")]
    /\ UNCHANGED <<sendOp, typeName, requestInfoNil, responseHandler, errorMappings, claims,
                   authCalls, response, handlerCalls, factoryCalls>>

\* httpClient.Do returns response r, then retryCAEResponseIfRequired.
Dispatch(r) ==
    /\ apc = "dispatch"
    /\ dispatched' = dispatched + 1
    /\ LET decision == retryCAEResponseIfRequired(r, claims)
       IN CASE decision.action = "retry" ->
                 /\ apc' = "authenticate"
                 /\ claims' = decision.responseClaims
                 /\ responses' = Append(responses, r)
                 /\ response' = response
            [] decision.action = "panic" ->
                 /\ apc' = "panicked"
                 /\ claims' = claims
                 /\ responses' = Append(responses, r)
                 /\ response' = response
            [] OTHER ->
                 /\ apc' = "respond"
                 /\ claims' = claims
                 /\ responses' = Append(PurgeAll(responses), r)
                 /\ response' = Len(responses) + 1
    /\ UNCHANGED <<sendOp, typeName, requestInfoNil, responseHandler, errorMappings,
                   authCalls, handlerCalls, factoryCalls, result>>

\* The rest of the Send operation once getHttpResponseMessage returned a
\* response: the response handler branch, or throwFailedResponses and the
\* deserialization, with the deferred purge of the response.  The branch
\* "response is nil" is not reachable: httpClient.Do returns a response
\* whenever it returns no error.
Respond(parse) ==
    /\ apc = "respond"
    /\ LET n == response
           handled == afterResponseHandler(sendOp, responseHandler)
           processed == processResponse(sendOp, typeName, responses[n], errorMappings, parse)
       IN IF responseHandler.present
          THEN /\ handlerCalls' = Append(handlerCalls, [response |-> n, errorMappings |-> errorMappings])
               /\ apc' = IF handled.panic THEN "panicked" ELSE "returned"
               /\ result' = IF handled.panic THEN result ELSE [value |-> handled.value, err |-> handled.err]
               /\ UNCHANGED <<responses, factoryCalls>>
          ELSE /\ apc' = "returned"
               /\ result' = [value |-> processed.value, err |-> processed.err]
               /\ factoryCalls' = factoryCalls + processed.factoryCalls
               /\ responses' = [responses EXCEPT ![n] = purge(responses[n])]
               /\ UNCHANGED handlerCalls
    /\ UNCHANGED <<sendOp, typeName, requestInfoNil, responseHandler, errorMappings, claims,
                   authCalls, dispatched, response>>

AdapterNext ==
    LET
        \* typeName arguments tried for the primitive operations; the others take none.
        TypeNamesFor(op) ==
            IF op = "SendPrimitiveAsync" THEN {"[]byte", "string", "uint8"}
            ELSE IF op = "SendPrimitiveCollectionAsync" THEN {"string"}
            ELSE {""}
    IN
        LET
            \* Keys an error mapping may carry.
            MappingKeys ==
                {"404", "4XX", "5XX"}
            \* Outcomes of the parse node factory and of the parse node, chosen by the
            \* environment: the factory fails, or yields a node whose Get...Value
            \* returns a value, nil, or an error.
            ParseOutcomes ==
                {"factoryError", "value", "nilValue", "valueError"}
            SendOps ==
                {"SendAsync", "SendEnumAsync", "SendCollectionAsync", "SendEnumCollectionAsync",
                 "SendPrimitiveAsync", "SendPrimitiveCollectionAsync", "SendNoContentAsync"}
            \* Values a response handler may return.
            HandlerValueKinds ==
                {"nil", "Parsable", "[]Parsable", "[]interface{}", "string"}
            \* The response handler option of the request: absent, or a handler that
            \* returns (value, nil) or (nil, err).
            ResponseHandlers ==
                {NoResponseHandler}
                \cup [present : {TRUE}, value : HandlerValueKinds, fails : {FALSE}]
                \cup {[present |-> TRUE, value |-> "nil", fails |-> TRUE]}
        IN
            \/ \E op \in SendOps, isNil \in BOOLEAN, mappings \in SUBSET MappingKeys :
                 \E tn \in TypeNamesFor(op) :
                   \E handler \in (IF isNil THEN {NoResponseHandler} ELSE ResponseHandlers) :
                     SendStart(op, tn, isNil, handler, mappings)
            \/ \E ok \in BOOLEAN : Authenticate(ok)
            \/ RequestBuildFails
            \/ DispatchFails
            \/ \E r \in ServerResponses : Dispatch(r)
            \/ \E parse \in ParseOutcomes : Respond(parse)

(***************************************************************************)
(* The retry handler, modelled from section 4.2 of the specification and    *)
(* from retry_handler_test.go (retry_handler.go itself is not available).   *)
(***************************************************************************)

\* Largest max-retries option tried.
MaxRetriesBound ==
    3

\* Variant: the default policy also retries on server errors.
ShouldRetry_ServerErrors(policy, statusCode) ==
    CASE policy = "default" -> statusCode \in {429, 500, 503}
      [] policy = "always" -> TRUE
      [] OTHER -> FALSE

\* ShouldRetry(delay, attempt, req, resp) of the options.
ShouldRetry(policy, statusCode) ==
    CASE policy = "default" -> statusCode \in {429, 503}
      [] policy = "always" -> TRUE
      [] OTHER -> FALSE

\* Variant: one retry too many.
attemptsLeft_OffByOne(attempt, maxRetries) ==
    attempt <= maxRetries

\* "attempt < max"
attemptsLeft(attempt, maxRetries) ==
    attempt < maxRetries

\* Variant: the header carries the number of the previous attempt.
retryAttemptHeader_Previous(attempt) ==
    Itoa(attempt)

\* The value of "Retry-Attempt: <attempt+1>".
retryAttemptHeader(attempt) ==
    Itoa(attempt + 1)

\* Variant: the wait is abandoned but the latest response is handed back.
cancelledResult_KeepsResponse(latest, err) ==
    [response |-> latest, err |-> err]

\* "abort the loop ... and propagate the cancellation error": what
\* Intercept returns when the context is done before the delay has passed.
cancelledResult(latest, err) ==
    [response |-> 0, err |-> err]

\* Variant: the delay grows by the base delay with each attempt.
getRetryDelay_Linear(delaySeconds, attempt, retryAfter) ==
    LET exponential == delaySeconds * (attempt + 1)
    IN IF retryAfter.kind \in {"seconds", "date"} /\ retryAfter.seconds > exponential
       THEN retryAfter.seconds
       ELSE exponential

\* "Compute delay = max(header-driven, exponential)": the seconds to wait
\* before the retry that follows the attempt.  retryAfter is the
\* Retry-After header of the response: absent, integer seconds, a date
\* (seconds is then its distance from now) or neither.
getRetryDelay(delaySeconds, attempt, retryAfter) ==
    LET RECURSIVE pow(_, _)
        pow(base, n) == IF n = 0 THEN 1 ELSE base * pow(base, n - 1)
        exponential == delaySeconds * pow(2, attempt)
    IN IF retryAfter.kind \in {"seconds", "date"} /\ retryAfter.seconds > exponential
       THEN retryAfter.seconds
       ELSE exponential

VARIABLES
    rpc,             \* position of Intercept: idle, yield, waiting, done
    ctxErr,          \* the error of the request context, "nil" while it is not done
    retryOptions,    \* the options in effect for the request
    executionCount,  \* the attempt number: retries made so far
    retryAttempt,    \* the Retry-Attempt header of the request, "" when absent
    sentAttempts,    \* the Retry-Attempt header of each request passed to the next handler
    retryResponses,  \* the responses the next handler returned, in order
    retryResult,     \* the (response, err) Intercept returned; response is an index in retryResponses, 0 for nil
    waits            \* for each wait begun: the Retry-After header it follows and its seconds

rvars ==
    <<rpc, ctxErr, retryOptions, executionCount, retryAttempt, sentAttempts, retryResponses, retryResult,
      waits>>

RetryInit ==
    /\ rpc = "idle"
    /\ ctxErr = "nil"
    /\ retryOptions = [maxRetries |-> 3, shouldRetry |-> "default", delaySeconds |-> 3]
    /\ executionCount = 0
    /\ retryAttempt = ""
    /\ sentAttempts = <<>>
    /\ retryResponses = <<>>
    /\ retryResult = [response |-> 0, err |-> "nil"]
    /\ waits = <<>>

\* Intercept is called for a request without a Retry-Attempt header.
RetryIntercept(options) ==
    /\ rpc = "idle"
    /\ rpc' = "yield"
    /\ retryOptions' = options
    /\ UNCHANGED <<ctxErr, executionCount, retryAttempt, sentAttempts, retryResponses, retryResult, waits>>

\* Step 1 and the test of step 2: the next handler returns a response with
\* status statusCode and Retry-After header retryAfter; it is either final
\* or waited on for a retry.
RetryYield(statusCode, retryAfter) ==
    /\ rpc = "yield"
    /\ sentAttempts' = Append(sentAttempts, retryAttempt)
    /\ retryResponses' = Append(retryResponses, [status |-> statusCode, closed |-> FALSE])
    /\ IF ShouldRetry(retryOptions.shouldRetry, statusCode)
          /\ attemptsLeft(executionCount, retryOptions.maxRetries)
       THEN /\ rpc' = "waiting"
            /\ waits' = Append(waits, [retryAfter |-> retryAfter,
                                       seconds |-> getRetryDelay(retryOptions.delaySeconds, executionCount, retryAfter)])
            /\ UNCHANGED retryResult
       ELSE /\ rpc' = "done"
            /\ retryResult' = [response |-> Len(retryResponses) + 1, err |-> "nil"]
            /\ UNCHANGED waits
    /\ UNCHANGED <<ctxErr, retryOptions, executionCount, retryAttempt>>

\* The next handler returns a transport error: it propagates without retry.
RetryYieldFails ==
    /\ rpc = "yield"
    /\ sentAttempts' = Append(sentAttempts, retryAttempt)
    /\ rpc' = "done"
    /\ retryResult' = [response |-> 0, err |-> "transport"]
    /\ UNCHANGED <<ctxErr, retryOptions, executionCount, retryAttempt, retryResponses, waits>>

\* The request context is cancelled or its deadline passes while the next
\* handler works on the request or while the handler sleeps.
RetryContextDone(err) ==
    /\ rpc \in {"yield", "waiting"}
    /\ ctxErr = "nil"
    /\ ctxErr' = err
    /\ UNCHANGED <<rpc, retryOptions, executionCount, retryAttempt, sentAttempts, retryResponses, retryResult,
                   waits>>

\* The sleep ends before the context is done: the superseded response is
\* closed, the header is set and the handler yields again with attempt + 1.
RetryWaitElapsed ==
    /\ rpc = "waiting"
    /\ ctxErr = "nil"
    /\ retryAttempt' = retryAttemptHeader(executionCount)
    /\ executionCount' = executionCount + 1
    /\ retryResponses' = [retryResponses EXCEPT ![Len(retryResponses)].closed = TRUE]
    /\ rpc' = "yield"
    /\ UNCHANGED <<ctxErr, retryOptions, sentAttempts, retryResult, waits>>

\* The context is done before the delay has passed: the latest response is
\* discarded and the cancellation error returned.
RetryWaitCancelled ==
    /\ rpc = "waiting"
    /\ ctxErr # "nil"
    /\ retryResponses' = [retryResponses EXCEPT ![Len(retryResponses)].closed = TRUE]
    /\ rpc' = "done"
    /\ retryResult' = cancelledResult(Len(retryResponses), ctxErr)
    /\ UNCHANGED <<ctxErr, retryOptions, executionCount, retryAttempt, sentAttempts, waits>>

RetryNext ==
    LET
        \* The ShouldRetry callbacks tried: the default policy (retry on 429 and
        \* 503), a callback that always returns false, one that always returns true.
        ShouldRetryPolicies ==
            {"default", "never", "always"}
        \* The base delays are that of the backoff test and the default.
        RetryOptions ==
            [maxRetries : 1..MaxRetriesBound, shouldRetry : ShouldRetryPolicies, delaySeconds : {1, 3}]
        \* The Retry-After headers of a response: none, integer seconds below
        \* and above the backoff, a date 4 s from now, and text that is neither.
        RetryAfterHeaders ==
            {[kind |-> "none", seconds |-> 0], [kind |-> "seconds", seconds |-> 1],
             [kind |-> "seconds", seconds |-> 5], [kind |-> "date", seconds |-> 4],
             [kind |-> "garbage", seconds |-> 0]}
        \* Status codes the next handler may answer with.
        RetryStatusCodes ==
            {200, 429, 500, 503}
        \* The errors of a context that is done: cancelled, or past its deadline.
        ContextErrors ==
            {"context canceled", "context deadline exceeded"}
    IN
        \/ \E options \in RetryOptions : RetryIntercept(options)
        \/ \E statusCode \in RetryStatusCodes, retryAfter \in RetryAfterHeaders :
              (statusCode = 429 \/ retryAfter.kind = "none") /\ RetryYield(statusCode, retryAfter)
        \/ RetryYieldFails
        \/ \E err \in ContextErrors : RetryContextDone(err)
        \/ RetryWaitElapsed
        \/ RetryWaitCancelled

(***************************************************************************)
(* The redirect handler (redirect_handler.go).  URLs and the Location       *)
(* header are sequences of characters, parsed as net/url parses them.       *)
(***************************************************************************)

defaultMaxRedirects ==
    5

absoluteMaxRedirects ==
    20

movedPermanently ==
    301

found ==
    302

seeOther ==
    303

temporaryRedirect ==
    307

permanentRedirect ==
    308

\* Index of the first character of rawURL at or after i that cannot belong
\* to a scheme; 0 if there is none.
RECURSIVE schemeEnd(_, _)
schemeEnd(rawURL, i) ==
    LET Letters == {"A", "B", "C", "D", "E", "F", "G", "H", "I", "J", "K", "L", "M", "N", "O", "P", "Q", "R", "S", "T", "U", "V", "W", "X", "Y", "Z",
                   "a", "b", "c", "d", "e", "f", "g", "h", "i", "j", "k", "l", "m", "n", "o", "p", "q", "r", "s", "t", "u", "v", "w", "x", "y", "z"}
        \* The characters a scheme may hold after its first letter, besides letters.
        SchemeExtraChars == {"0", "1", "2", "3", "4", "5", "6", "7", "8", "9", "+", "-", "."}
    IN IF i > Len(rawURL) THEN 0
       ELSE IF rawURL[i] \in Letters \/ (i > 1 /\ rawURL[i] \in SchemeExtraChars) THEN schemeEnd(rawURL, i + 1)
       ELSE i

\* url.getScheme: the scheme ends at the first ':'; a ':' at the start is
\* an error and any other character outside the scheme alphabet means that
\* the URL has no scheme.
getScheme(rawURL) ==
    LET splitAt(k) ==
            IF k = 0 \/ rawURL[k] # ":"
            THEN [scheme |-> <<>>, rest |-> rawURL, err |-> "nil"]
            ELSE IF k = 1
            THEN [scheme |-> <<>>, rest |-> <<>>, err |-> "missing protocol scheme"]
            ELSE [scheme |-> SubSeq(rawURL, 1, k - 1), rest |-> SubSeq(rawURL, k + 1, Len(rawURL)), err |-> "nil"]
    IN splitAt(schemeEnd(rawURL, 1))

NoURL ==
    [Scheme |-> <<>>, Host |-> <<>>, Path |-> <<>>]

\* url.Parse, without query, fragment and user info: the scheme is
\* lower-cased, an authority introduced by "//" becomes Host (with its
\* port), the remainder is the path; a rootless remainder after a scheme is
\* opaque and leaves Host and Path empty.
urlParse(rawURL) ==
    LET
        \* url.validOptionalPort: empty, or ':' followed by digits only.
        validOptionalPort(port) ==
            port = <<>> \/ (port[1] = ":" /\ \A i \in 2..Len(port) : \E d \in 1..10 : port[i] = Digits[d])
    IN
        LET parseAuthority(s, afterSlashes, slash, authority, colon) ==
                IF colon # 0 /\ ~validOptionalPort(SubSeq(authority, colon, Len(authority)))
                THEN [url |-> NoURL, err |-> "invalid port"]
                ELSE [url |-> [Scheme |-> FoldCase(s.scheme),
                               Host |-> authority,
                               Path |-> IF slash = 0 THEN <<>> ELSE SubSeq(afterSlashes, slash, Len(afterSlashes))],
                      err |-> "nil"]
            authorityOf(afterSlashes, slash) ==
                IF slash = 0 THEN afterSlashes ELSE SubSeq(afterSlashes, 1, slash - 1)
            parse(s) ==
                IF s.err # "nil" THEN [url |-> NoURL, err |-> s.err]
                ELSE IF ~HasPrefix(s.rest, <<"/">>) /\ s.scheme # <<>>
                THEN [url |-> [Scheme |-> FoldCase(s.scheme), Host |-> <<>>, Path |-> <<>>], err |-> "nil"]
                ELSE IF ~HasPrefix(s.rest, <<"/">>) /\ IndexFrom(Split(s.rest, "/")[1], ":", 1) # 0
                THEN [url |-> NoURL, err |-> "first path segment in URL cannot contain colon"]
                ELSE IF ~HasPrefix(s.rest, <<"/", "/">>) \/ (s.scheme = <<>> /\ HasPrefix(s.rest, <<"/", "/", "/">>))
                THEN [url |-> [Scheme |-> FoldCase(s.scheme), Host |-> <<>>, Path |-> s.rest], err |-> "nil"]
                ELSE parseAuthority(s, SubSeq(s.rest, 3, Len(s.rest)),
                                    IndexFrom(SubSeq(s.rest, 3, Len(s.rest)), "/", 1),
                                    authorityOf(SubSeq(s.rest, 3, Len(s.rest)),
                                                IndexFrom(SubSeq(s.rest, 3, Len(s.rest)), "/", 1)),
                                    IndexFrom(authorityOf(SubSeq(s.rest, 3, Len(s.rest)),
                                                          IndexFrom(SubSeq(s.rest, 3, Len(s.rest)), "/", 1)),
                                              ":", 1))
        IN parse(getScheme(rawURL))

\* URL.Hostname: Host without its port.
Hostname(u) ==
    LET colon == IndexFrom(u.Host, ":", 1)
    IN IF colon = 0 THEN u.Host ELSE SubSeq(u.Host, 1, colon - 1)

\* URL.Port: the part of Host after the colon, empty without one.
Port(u) ==
    LET colon == IndexFrom(u.Host, ":", 1)
    IN IF colon = 0 THEN <<>> ELSE SubSeq(u.Host, colon + 1, Len(u.Host))

\* strings.EqualFold
EqualFold(s, t) ==
    FoldCase(s) = FoldCase(t)
\* Header.Del
Del(header, name) ==
    [header EXCEPT ![name] = ""]

\* The value no response has: the nil response.
NilResponse ==
    [StatusCode |-> 0, Location |-> <<>>]

isRedirectResponse(resp) ==
    IF resp = NilResponse THEN FALSE
    ELSE IF resp.Location = <<>> THEN FALSE
    ELSE resp.StatusCode \in {movedPermanently, found, seeOther, temporaryRedirect, permanentRedirect}

\* Variant: no absolute cap.
GetMaxRedirect_NoCap(opts) ==
    IF opts.MaxRedirects < 1 THEN defaultMaxRedirects ELSE opts.MaxRedirects

\* Variant: a maximum of zero is kept.
GetMaxRedirect_ZeroKept(opts) ==
    IF DOMAIN opts = {} \/ opts.MaxRedirects < 0 THEN defaultMaxRedirects
    ELSE IF opts.MaxRedirects > absoluteMaxRedirects THEN absoluteMaxRedirects
    ELSE opts.MaxRedirects

\* Variant: a maximum below 1 stands for the absolute maximum.
GetMaxRedirect_BelowOneIsAbsolute(opts) ==
    IF DOMAIN opts = {} \/ opts.MaxRedirects < 1 THEN absoluteMaxRedirects
    ELSE IF opts.MaxRedirects > absoluteMaxRedirects THEN absoluteMaxRedirects
    ELSE opts.MaxRedirects

\* A nil options pointer is the record without fields.
GetMaxRedirect(opts) ==
    IF DOMAIN opts = {} \/ opts.MaxRedirects < 1 THEN defaultMaxRedirects
    ELSE IF opts.MaxRedirects > absoluteMaxRedirects THEN absoluteMaxRedirects
    ELSE opts.MaxRedirects

\* TRUE when the resolver returned is not nil.
getProxyResolverFromPipeline(pl) ==
    pl = "proxy"

\* What the proxy resolver of a pipeline may return for a URI: a proxy
\* URL, nil (the destination bypasses the proxy), or an error; there is
\* nothing to call when the resolver is nil.
ProxyResults(pl) ==
    IF getProxyResolverFromPipeline(pl) THEN {"url", "nil", "error"} ELSE {"notCalled"}

\* Variant: the port is not compared.
isDifferentHostOrSchemeOrPort_NoPort(originalURI, newURI) ==
    \/ ~EqualFold(Hostname(newURI), Hostname(originalURI))
    \/ ~EqualFold(newURI.Scheme, originalURI.Scheme)

isDifferentHostOrSchemeOrPort(originalURI, newURI) ==
    \/ ~EqualFold(Hostname(newURI), Hostname(originalURI))
    \/ ~EqualFold(newURI.Scheme, originalURI.Scheme)
    \/ Port(newURI) # Port(originalURI)

\* Variant: an error of the proxy function counts as an active proxy.
isProxyInactive_ErrorKeeps(proxyResolver, resolved) ==
    IF ~proxyResolver THEN TRUE
    ELSE resolved = "nil"

\* proxyResolver is TRUE for a resolver that is not nil; resolved is what
\* it returns for the new URI.
isProxyInactive(proxyResolver, resolved) ==
    IF ~proxyResolver THEN TRUE
    ELSE resolved = "error" \/ resolved = "nil"

\* Variant: the Cookie header is kept.
DefaultScrubSensitiveHeaders_KeepsCookie(rq, originalURI, newURI, proxyResolver, resolved) ==
    LET h1 == IF isDifferentHostOrSchemeOrPort(originalURI, newURI)
              THEN Del(rq.Header, "Authorization")
              ELSE rq.Header
        h2 == IF isProxyInactive(proxyResolver, resolved)
              THEN Del(h1, "Proxy-Authorization")
              ELSE h1
    IN [rq EXCEPT !.Header = h2]

\* The headers of the request after DefaultScrubSensitiveHeaders.
DefaultScrubSensitiveHeaders(rq, originalURI, newURI, proxyResolver, resolved) ==
    LET h1 == IF isDifferentHostOrSchemeOrPort(originalURI, newURI)
              THEN Del(Del(rq.Header, "Authorization"), "Cookie")
              ELSE rq.Header
        h2 == IF isProxyInactive(proxyResolver, resolved)
              THEN Del(h1, "Proxy-Authorization")
              ELSE h1
    IN [rq EXCEPT !.Header = h2]

\* The caller-supplied scrub callback of the tests: it removes X-Api-Key
\* when the host changes and nothing else.
customCallback(rq, originalURI, newURI) ==
    IF ~EqualFold(newURI.Host, originalURI.Host)
    THEN [rq EXCEPT !.Header = Del(rq.Header, "X-Api-Key")]
    ELSE rq

\* Variant: a 303 keeps the method and the body.
seeOtherRequest_Unchanged(rq) ==
    rq

\* "Handle 303 See Other - change method and remove body-related headers"
seeOtherRequest(rq) ==
    [rq EXCEPT !.Method = "GET",
               !.Header = Del(Del(rq.Header, "Content-Type"), "Content-Length"),
               !.Body = "nil"]

\* Variant: the configured callback is ignored.
scrubFuncFor_IgnoresOption(scrub) ==
    "default"

\* "Use callback to scrub sensitive headers, defaulting if not provided"
scrubFuncFor(scrub) ==
    IF scrub = "nil" THEN "default" ELSE scrub

\* Variant: the copy shares the header map of the request.
Clone_SharesHeader(rq) ==
    [copy |-> rq, shared |-> {"Header", "Body"}]

\* request.Clone(ctx): a deep copy with a header map and a URL of its own;
\* shared holds the fields of the copy that refer to the object the
\* request refers to (the Body reader).
Clone(rq) ==
    [copy |-> rq, shared |-> {"Body"}]

\* getRedirectRequest: the request for the redirect (request), the clone
\* as handed to the scrub function (clone), the scrub function called
\* (scrubFunc), the target URI, the error, and the request that was
\* redirected as it stands afterwards (original): Header.Del on a shared
\* header map shows in it, the assignments to fields of the clone do not.
getRedirectRequest(pl, rq, resp, scrub, resolved) ==
    LET locationHeaderValue ==
            IF resp.Location[1] = "/"
            THEN rq.URL.Scheme \o <<":", "/", "/">> \o rq.URL.Host \o resp.Location
            ELSE resp.Location
        cloned(targetUrl) ==
            [Clone(rq).copy EXCEPT !.URL = targetUrl, !.Host = targetUrl.Host]
        afterwards(final) ==
            IF "Header" \in Clone(rq).shared THEN [rq EXCEPT !.Header = final.Header] ELSE rq
        finished(final, clone, targetUrl, scrubFunc) ==
            [request |-> final, clone |-> clone, scrubFunc |-> scrubFunc, targetUrl |-> targetUrl,
             err |-> "nil", original |-> afterwards(final)]
        redirected(clone) ==
            IF resp.StatusCode = seeOther THEN seeOtherRequest(clone) ELSE clone
        scrubbed(clone, targetUrl, scrubFunc, proxyResolver) ==
            finished(IF scrubFunc = "default"
                     THEN DefaultScrubSensitiveHeaders(clone, rq.URL, targetUrl, proxyResolver, resolved)
                     ELSE customCallback(clone, rq.URL, targetUrl),
                     clone, targetUrl, scrubFunc)
        build(parsed) ==
            IF parsed.err # "nil"
            THEN [request |-> rq, clone |-> rq, scrubFunc |-> "nil", targetUrl |-> NoURL, err |-> parsed.err,
                  original |-> rq]
            ELSE scrubbed(redirected(cloned(parsed.url)), parsed.url, scrubFuncFor(scrub),
                          getProxyResolverFromPipeline(pl))
    IN build(urlParse(locationHeaderValue))
\* Largest MaxRedirects option tried; it lies above the absolute cap.
MaxRedirectsBound ==
    21

\* No redirect option on the request context.
NoRequestOption ==
    [ShouldRedirect |-> "nil", MaxRedirects |-> -1, ScrubSensitiveHeaders |-> "none"]

\* The requests intercepted: a POST with a body and every header, and a
\* GET without body and without the body headers.
RedirectRequests ==
    LET
        \* The header names the handler or a scrub callback touches; a header map
        \* gives each its value, "" when the header is absent (Header.Get).
        RedirectHeaderNames ==
            {"Authorization", "Cookie", "Proxy-Authorization", "Content-Type", "Content-Length", "X-Api-Key"}
        \* http://a/x
        OriginalURL ==
            [Scheme |-> <<"h", "t", "t", "p">>, Host |-> <<"a">>, Path |-> <<"/", "x">>]
    IN
        {[Method |-> "POST", URL |-> OriginalURL, Host |-> OriginalURL.Host,
          Header |-> [n \in RedirectHeaderNames |->
                        CASE n = "Authorization" -> "Bearer T"
                          [] n = "Cookie" -> "s=1"
                          [] n = "Proxy-Authorization" -> "Basic dXNlcjpwYXNz"
                          [] n = "Content-Type" -> "text/plain"
                          [] n = "Content-Length" -> "4"
                          [] OTHER -> "secret123"],
          ContentLength |-> 4, Body |-> "body"],
         [Method |-> "GET", URL |-> OriginalURL, Host |-> OriginalURL.Host,
          Header |-> [n \in RedirectHeaderNames |->
                        CASE n = "Authorization" -> "Bearer T"
                          [] n = "Proxy-Authorization" -> "Basic dXNlcjpwYXNz"
                          [] OTHER -> ""],
          ContentLength |-> 0, Body |-> "nil"]}

\* The responses the next handler may return: every redirect status with
\* every Location, and responses that are not redirects.
RedirectResponses ==
    LET
        \* The Location values a response may carry: /p, HTTP://A/p (the same
        \* origin in another case), http://b/p, https://a/p, http://a:8080/p,
        \* and :p, which does not parse.
        Locations ==
            {<<"/", "p">>, <<"H", "T", "T", "P", ":", "/", "/", "A", "/", "p">>, <<"h", "t", "t", "p", ":", "/", "/", "b", "/", "p">>, <<"h", "t", "t", "p", "s", ":", "/", "/", "a", "/", "p">>, <<"h", "t", "t", "p", ":", "/", "/", "a", ":", "8", "0", "8", "0", "/", "p">>, <<":", "p">>}
    IN
        [StatusCode : {movedPermanently, found, seeOther, temporaryRedirect, permanentRedirect},
         Location : Locations]
        \cup {[StatusCode |-> 200, Location |-> <<>>],
              [StatusCode |-> 200, Location |-> <<"/", "p">>],
              [StatusCode |-> 304, Location |-> <<"/", "p">>],
              [StatusCode |-> movedPermanently, Location |-> <<>>]}

\* The handlers, requests and pipelines tried.  Runs that may follow more
\* than two redirects use a handler without callbacks, a pipeline without
\* a transport accessor and no request option.
RedirectInputs ==
    LET
        \* The pipelines a handler may run in: one without GetTransport (the
        \* NoopPipeline of the tests), and middleware pipelines whose transport is
        \* nil, is not an *http.Transport, has no Proxy function, or has one.
        Pipelines ==
            {"noAccessor", "nilTransport", "otherTransport", "nilProxy", "proxy"}
        \* The ScrubSensitiveHeaders options tried: none, or the callback above.
        ScrubCallbacks ==
            {"nil", "custom"}
        \* The options of a handler or of a request: the ShouldRedirect callback
        \* is nil or a function that always answers true or always false.
        RedirectHandlerOptions ==
            [ShouldRedirect : {"nil", "true", "false"},
             MaxRedirects : {-1, 0, 2, MaxRedirectsBound},
             ScrubSensitiveHeaders : ScrubCallbacks]
        \* The redirect options a request may carry on its context.
        RedirectRequestOptions ==
            {NoRequestOption,
             [ShouldRedirect |-> "true", MaxRedirects |-> 1, ScrubSensitiveHeaders |-> "nil"]}
    IN
        {in \in [options : RedirectHandlerOptions, requestOption : RedirectRequestOptions,
                 pipeline : Pipelines, request : RedirectRequests] :
            in.options.MaxRedirects # 2 =>
                /\ in.options.ScrubSensitiveHeaders = "nil"
                /\ in.options.ShouldRedirect = "nil"
                /\ in.pipeline = "noAccessor"
                /\ in.requestOption = NoRequestOption
                /\ in.request.Method = "POST"}

\* Variant: the answer of the callback is not used.
shouldRedirect_AnswerIgnored(callback) ==
    callback # "nil" \/ callback = "nil"

\* callback != nil && callback(req, response) || callback == nil
shouldRedirect(callback) ==
    (callback # "nil" /\ callback = "true") \/ callback = "nil"

VARIABLES
    dpc,                 \* position of Intercept: idle, next (inside pipeline.Next), done
    redirectOptions,     \* middleware.options
    redirectReqOption,   \* the redirect option on the request context, NoRequestOption without one
    redirectPipeline,    \* the pipeline Intercept was called with
    req,                 \* the request last passed to pipeline.Next
    redirectCount,       \* redirectCount of redirectRequest
    nextCalls,           \* number of calls of pipeline.Next
    lastResponse,        \* the response pipeline.Next returned last
    proxyResult,         \* what the proxy resolver returned last, "notCalled" before
    scrubCalls,          \* number of calls of the caller-supplied scrub callback
    scrubArgs,           \* the arguments of its last call
    redirectResult,      \* the (response, err) Intercept returned
    openBodies,          \* number of responses received from pipeline.Next whose Body was not closed
    redirectedRequest    \* the request last redirected as it stands after getRedirectRequest

dvars ==
    <<dpc, redirectOptions, redirectReqOption, redirectPipeline, req, redirectCount,
      nextCalls, lastResponse, proxyResult, scrubCalls, scrubArgs, redirectResult, openBodies,
      redirectedRequest>>

RedirectInit ==
    LET
        \* No call of a caller-supplied scrub callback yet.
        NoScrubCall ==
            [request |-> "none", originalURI |-> NoURL, newURI |-> NoURL, proxyResolver |-> FALSE]
    IN
        /\ dpc = "idle"
        /\ redirectOptions = [ShouldRedirect |-> "true", MaxRedirects |-> defaultMaxRedirects, ScrubSensitiveHeaders |-> "nil"]
        /\ redirectReqOption = NoRequestOption
        /\ redirectPipeline = "noAccessor"
        /\ req = CHOOSE r \in RedirectRequests : r.Method = "GET"
        /\ redirectCount = 0
        /\ nextCalls = 0
        /\ lastResponse = NilResponse
        /\ proxyResult = "notCalled"
        /\ scrubCalls = 0
        /\ scrubArgs = NoScrubCall
        /\ redirectResult = [response |-> NilResponse, err |-> "nil"]
        /\ openBodies = 0
        /\ redirectedRequest = req

\* Intercept is called: the request is passed to the next handler.
RedirectIntercept(in) ==
    /\ dpc = "idle"
    /\ dpc' = "next"
    /\ redirectOptions' = in.options
    /\ redirectReqOption' = in.requestOption
    /\ redirectPipeline' = in.pipeline
    /\ req' = in.request
    /\ nextCalls' = 1
    /\ UNCHANGED <<redirectCount, lastResponse, proxyResult, scrubCalls, scrubArgs, redirectResult, openBodies,
                   redirectedRequest>>

\* pipeline.Next returns an error: Intercept returns it.
RedirectNextFails ==
    /\ dpc = "next"
    /\ dpc' = "done"
    /\ redirectResult' = [response |-> NilResponse, err |-> "transport"]
    /\ UNCHANGED <<redirectOptions, redirectReqOption, redirectPipeline, req, redirectCount,
                   nextCalls, lastResponse, proxyResult, scrubCalls, scrubArgs, openBodies, redirectedRequest>>

\* pipeline.Next returns a response, its body open: redirectRequest either
\* returns it or builds the request for the redirect and passes it to
\* pipeline.Next; it calls neither Body.Close nor a read of the body.
RedirectNextReturns(resp, resolved) ==
    LET
        \* "reqOption, ok := req.Context().Value(redirectKeyValue).(redirectHandlerOptionsInt)"
        reqOptionOf(handlerOptions, requestOption) ==
            IF requestOption = NoRequestOption THEN handlerOptions ELSE requestOption
    IN
        LET follows(reqOption) ==
                /\ isRedirectResponse(resp)
                /\ redirectCount < GetMaxRedirect(reqOption)
                /\ shouldRedirect(reqOption.ShouldRedirect)
            follow == follows(reqOptionOf(redirectOptions, redirectReqOption))
        IN /\ dpc = "next"
           /\ lastResponse' = resp
           /\ openBodies' = openBodies + 1
           /\ IF ~follow
              THEN /\ dpc' = "done"
                   /\ redirectResult' = [response |-> resp, err |-> "nil"]
                   /\ UNCHANGED <<req, redirectCount, nextCalls, proxyResult, scrubCalls, scrubArgs,
                                  redirectedRequest>>
              ELSE \E built \in {getRedirectRequest(redirectPipeline, req, resp, redirectOptions.ScrubSensitiveHeaders, resolved)} :
              IF built.err # "nil"
              THEN /\ dpc' = "done"
                   /\ redirectCount' = redirectCount + 1
                   /\ redirectResult' = [response |-> resp, err |-> built.err]
                   /\ redirectedRequest' = built.original
                   /\ UNCHANGED <<req, nextCalls, proxyResult, scrubCalls, scrubArgs>>
              ELSE /\ dpc' = "next"
                   /\ redirectCount' = redirectCount + 1
                   /\ req' = built.request
                   /\ redirectedRequest' = built.original
                   /\ nextCalls' = nextCalls + 1
                   /\ proxyResult' = IF built.scrubFunc = "default" /\ getProxyResolverFromPipeline(redirectPipeline)
                                     THEN resolved ELSE "notCalled"
                   /\ IF built.scrubFunc = "custom"
                      THEN /\ scrubCalls' = scrubCalls + 1
                           /\ scrubArgs' = [request |-> built.clone, originalURI |-> req.URL,
                                            newURI |-> built.targetUrl,
                                            proxyResolver |-> getProxyResolverFromPipeline(redirectPipeline)]
                      ELSE UNCHANGED <<scrubCalls, scrubArgs>>
                   /\ UNCHANGED redirectResult
           /\ UNCHANGED <<redirectOptions, redirectReqOption, redirectPipeline>>

RedirectNext ==
    \/ dpc = "idle" /\ \E in \in RedirectInputs : RedirectIntercept(in)
    \/ RedirectNextFails
    \/ dpc = "next" /\ \E resp \in RedirectResponses, resolved \in ProxyResults(redirectPipeline) :
                          \* From the third redirect on the server names no other origin.
                          /\ redirectCount >= 2 => resp.Location \in {<<>>, <<"/", "p">>, <<":", "p">>}
                          /\ RedirectNextReturns(resp, resolved)

(***************************************************************************)
(* The compression handler (CompressionHandler.Intercept).  Bodies and the  *)
(* Content-Range values are sequences of characters; a header map gives     *)
(* each header name the sequence of its values.                             *)
(***************************************************************************)

\* strings.ToLower
ToLower(s) ==
    FoldCase(s)

\* strings.Contains
Contains(s, substr) ==
    \E i \in 1..(Len(s) - Len(substr) + 1) : SubSeq(s, i, i + Len(substr) - 1) = substr

\* The entry of a header map for a name it does not hold, and the entry
\* for a name with the values vs.
NoValues ==
    [present |-> FALSE, values |-> <<>>]

Values(vs) ==
    [present |-> TRUE, values |-> vs]

\* Variant: the letter case of the value is not folded.
contentRangeBytesIsPresent_CaseSensitive(header) ==
    \E i \in 1..Len(header["Content-Range"].values) :
        Contains(header["Content-Range"].values[i], <<"b", "y", "t", "e", "s">>)

contentRangeBytesIsPresent(header) ==
    \E i \in 1..Len(header["Content-Range"].values) :
        Contains(ToLower(header["Content-Range"].values[i]), <<"b", "y", "t", "e", "s">>)

\* A nil request body, and a body that yields the bytes bs.
NilBody ==
    [isNil |-> TRUE, bytes |-> <<>>]

BodyOf(bs) ==
    [isNil |-> FALSE, bytes |-> bs]

\* compressReqBody: the gzip stream of the bytes, here a member header, the
\* bytes and a trailer; it is never the input and never empty.
compressReqBody(reqBody) ==
    <<"1f", "8b", "08">> \o reqBody \o <<"crc", "isize">>

\* Variant: the fallback leaves Content-Encoding on the request.
uncompressedRequest_KeepsEncoding(rq, body, contentLength) ==
    [rq EXCEPT !.Body = BodyOf(body), !.ContentLength = contentLength]

\* The request of the fallback after a 415: Content-Encoding deleted, the
\* body and the content length that were read before compressing restored.
uncompressedRequest(rq, body, contentLength) ==
    [rq EXCEPT !.Header["Content-Encoding"] = NoValues, !.Body = BodyOf(body), !.ContentLength = contentLength]

\* "If response has status 415 retry request with uncompressed body"
isUnsupportedMediaType(statusCode) ==
    statusCode = 415

\* The requests tried.  Content-Range: none, one value in lower case, one
\* in upper case, one of another unit, and two values.  Content-Encoding:
\* none, one value, and a key without values.  Body: none, an empty one and
\* one of four bytes.
CompressionRequests ==
    LET ContentRangeValues ==
            {NoValues, Values(<<<<"b", "y", "t", "e", "s", " ", "0", "-", "1", "/", "4">>>>), Values(<<<<"B", "Y", "T", "E", "S", " ", "0", "-", "1", "/", "4">>>>), Values(<<<<"i", "t", "e", "m", "s", " ", "0", "-", "1", "/", "4">>>>), Values(<<<<"i", "t", "e", "m", "s", " ", "0", "-", "1", "/", "4">>, <<"b", "y", "t", "e", "s", " ", "0", "-", "1", "/", "4">>>>)}
        ContentEncodingValues == {NoValues, Values(<<<<"b", "r">>>>), Values(<<>>)}
        CompressionBodies == {NilBody, BodyOf(<<>>), BodyOf(<<"d", "a", "t", "a">>)}
    IN {[Header |-> [n \in {"Content-Range", "Content-Encoding"} |-> IF n = "Content-Range" THEN cr ELSE ce],
         Body |-> b,
         ContentLength |-> Len(b.bytes)] :
           cr \in ContentRangeValues, ce \in ContentEncodingValues, b \in CompressionBodies}

VARIABLES
    cpc,                        \* position of Intercept: idle, forwarded, compressed, fallback (inside pipeline.Next), done
    enableCompression,          \* c.options.enableCompression
    compressionReqOption,       \* the compression option on the request context
    interceptedReq,             \* the request as Intercept received it
    creq,                       \* the request, as the handler has modified it
    unCompressedBody,           \* the local variables of Intercept
    unCompressedContentLength,
    sentRequests,               \* the request as it was at each call of pipeline.Next
    compressionResponses,       \* the status codes pipeline.Next returned
    compressionResult           \* the (response, err) Intercept returned; response is an index in compressionResponses, 0 for nil

cvars ==
    <<cpc, enableCompression, compressionReqOption, interceptedReq, creq, unCompressedBody,
      unCompressedContentLength, sentRequests, compressionResponses, compressionResult>>

CompressionInit ==
    /\ cpc = "idle"
    /\ enableCompression = TRUE
    /\ compressionReqOption = "none"
    /\ interceptedReq = CHOOSE r \in CompressionRequests :
                            r.Body = NilBody /\ r.Header = [n \in {"Content-Range", "Content-Encoding"} |-> NoValues]
    /\ creq = interceptedReq
    /\ unCompressedBody = <<>>
    /\ unCompressedContentLength = 0
    /\ sentRequests = <<>>
    /\ compressionResponses = <<>>
    /\ compressionResult = [response |-> 0, err |-> "nil"]

\* reqOption.ShouldCompress(), reqOption being the option of the request
\* context when there is one and c.options otherwise.
ShouldCompress(handlerEnabled, requestOption) ==
    IF requestOption = "none" THEN handlerEnabled ELSE requestOption = "enabled"

\* Intercept up to its first call of pipeline.Next: the request is passed
\* on as it is, or its body is read and compressed first; reading the body
\* may fail.
CompressionIntercept(enabled, requestOption, rq, readFails) ==
    LET
        contentEncodingIsPresent(header) ==
            header["Content-Encoding"].present
    IN
        LET compressed == compressReqBody(rq.Body.bytes)
            gzipReq == [rq EXCEPT !.Header["Content-Encoding"] = Values(<<<<"g", "z", "i", "p">>>>),
                                  !.Body = BodyOf(compressed),
                                  !.ContentLength = Len(compressed)]
        IN /\ cpc = "idle"
           /\ enableCompression' = enabled
           /\ compressionReqOption' = requestOption
           /\ interceptedReq' = rq
           /\ IF \/ ~ShouldCompress(enabled, requestOption)
                 \/ contentRangeBytesIsPresent(rq.Header)
                 \/ contentEncodingIsPresent(rq.Header)
                 \/ rq.Body = NilBody
              THEN /\ cpc' = "forwarded"
                   /\ creq' = rq
                   /\ sentRequests' = <<rq>>
                   /\ UNCHANGED <<unCompressedBody, unCompressedContentLength, compressionResult>>
              ELSE IF readFails
              THEN /\ cpc' = "done"
                   /\ creq' = rq
                   /\ compressionResult' = [response |-> 0, err |-> "read"]
                   /\ UNCHANGED <<unCompressedBody, unCompressedContentLength, sentRequests>>
              ELSE /\ cpc' = "compressed"
                   /\ unCompressedBody' = rq.Body.bytes
                   /\ unCompressedContentLength' = rq.ContentLength
                   /\ creq' = gzipReq
                   /\ sentRequests' = <<gzipReq>>
                   /\ UNCHANGED compressionResult
           /\ UNCHANGED compressionResponses

\* pipeline.Next returns an error.
CompressionNextFails ==
    /\ cpc \in {"forwarded", "compressed", "fallback"}
    /\ cpc' = "done"
    /\ compressionResult' = [response |-> 0, err |-> "transport"]
    /\ UNCHANGED <<enableCompression, compressionReqOption, interceptedReq, creq, unCompressedBody,
                   unCompressedContentLength, sentRequests, compressionResponses>>

\* pipeline.Next returns a response: it is returned, unless it is the 415
\* answer to the compressed request, which is sent again uncompressed.
CompressionNextReturns(statusCode) ==
    /\ cpc \in {"forwarded", "compressed", "fallback"}
    /\ compressionResponses' = Append(compressionResponses, statusCode)
    /\ IF cpc = "compressed" /\ isUnsupportedMediaType(statusCode)
       THEN /\ cpc' = "fallback"
            /\ creq' = uncompressedRequest(creq, unCompressedBody, unCompressedContentLength)
            /\ sentRequests' = Append(sentRequests, creq')
            /\ UNCHANGED compressionResult
       ELSE /\ cpc' = "done"
            /\ compressionResult' = [response |-> Len(compressionResponses) + 1, err |-> "nil"]
            /\ UNCHANGED <<creq, sentRequests>>
    /\ UNCHANGED <<enableCompression, compressionReqOption, interceptedReq, unCompressedBody,
                   unCompressedContentLength>>

CompressionNext ==
    LET
        \* The compression option on the request context: none, or one that
        \* enables or disables compression.
        CompressionRequestOptions ==
            {"none", "enabled", "disabled"}
        \* The status codes the next handler may answer with.
        CompressionStatusCodes ==
            {200, 415, 500}
    IN
        \/ cpc = "idle" /\ \E enabled, readFails \in BOOLEAN, requestOption \in CompressionRequestOptions,
                              rq \in CompressionRequests :
                                CompressionIntercept(enabled, requestOption, rq, readFails)
        \/ CompressionNextFails
        \/ \E statusCode \in CompressionStatusCodes : CompressionNextReturns(statusCode)

(***************************************************************************)
(* The parameter-name decoding handler                                      *)
(* (parameters_name_decoding_handler.go).  The raw query is a sequence of   *)
(* characters.                                                              *)
(***************************************************************************)

\* strings.ToUpper.
ToUpper(s) ==
    LET UpperChar(c) ==
            IF \E i \in 1..26 : LowerChars[i] = c
            THEN UpperChars[CHOOSE i \in 1..26 : LowerChars[i] = c]
            ELSE c
    IN [i \in 1..Len(s) |-> UpperChar(s[i])]

\* int64(parameter): the value of the bytes used in decode sets.
ByteValue(c) ==
    CASE c = "$" -> 36
      [] c = "-" -> 45
      [] c = "." -> 46
      [] c = "~" -> 126
      [] c = "\n" -> 10

\* strconv.FormatInt(n, 16) for n >= 0: lower-case digits, no padding.
RECURSIVE FormatInt16(_)
FormatInt16(n) ==
    LET HexDigits == <<"0", "1", "2", "3", "4", "5", "6", "7", "8", "9", "a", "b", "c", "d", "e", "f">>
    IN IF n < 16 THEN <<HexDigits[n + 1]>>
       ELSE FormatInt16(n \div 16) \o <<HexDigits[(n % 16) + 1]>>

\* strings.ReplaceAll(s, old, new) for a non-empty old: the occurrences are
\* replaced from left to right and do not overlap.
RECURSIVE ReplaceAll(_, _, _)
ReplaceAll(s, old, new) ==
    IF Len(s) < Len(old) THEN s
    ELSE IF SubSeq(s, 1, Len(old)) = old
    THEN new \o ReplaceAll(SubSeq(s, Len(old) + 1, Len(s)), old, new)
    ELSE <<s[1]>> \o ReplaceAll(Tail(s), old, new)

\* The body of the loop of Intercept for one byte of the decode set.
decodeParameter(rawQuery, parameter) ==
    LET valueToReplace == <<"%">> \o FormatInt16(ByteValue(parameter))
        replacementValue == <<parameter>>
    IN ReplaceAll(ReplaceAll(rawQuery, ToUpper(valueToReplace), replacementValue),
                  ToLower(valueToReplace), replacementValue)

\* The loop over the decode set, in its order.
RECURSIVE decodeParameters(_, _)
decodeParameters(rawQuery, parametersToDecode) ==
    IF parametersToDecode = <<>> THEN rawQuery
    ELSE decodeParameters(decodeParameter(rawQuery, Head(parametersToDecode)), Tail(parametersToDecode))

\* The decode set of NewParametersNameDecodingHandler.
DefaultParametersToDecode ==
    <<"-", ".", "~", "$">>

\* No decoding option on the request context.
NoDecodingOption ==
    [Enable |-> FALSE, ParametersToDecode |-> <<"none">>]

\* Largest number of parameters in a raw query.
MaxParameters ==
    2

\* name=value, joined by '&'; the empty query and a name without a value.
RECURSIVE RawQueriesOf(_)
RawQueriesOf(n) ==
    LET
        \* Parameter names and values of the test corpus, and values that hold an
        \* encoded character of the decode set.
        ParameterNames ==
            {<<"%", "2", "4", "s", "e", "l", "e", "c", "t">>, <<"a", "p", "i", "%", "2", "D", "v", "e", "r", "s", "i", "o", "n">>, <<"q">>}
        ParameterValues ==
            {<<"2">>, <<"M", "%", "2", "6", "A">>, <<"a", "%", "2", "D", "b">>, <<"%", "2", "4", "t", "o", "p", "=", "x", "%", "7", "e", "y">>}
    IN
        LET one == {name \o <<"=">> \o value : name \in ParameterNames, value \in ParameterValues}
        IN IF n = 1 THEN one
           ELSE one \cup {q \o <<"&">> \o p : q \in RawQueriesOf(n - 1), p \in one}

VARIABLES
    ppc,                  \* position of Intercept: idle, next (inside pipeline.Next), done
    decodingOptions,      \* handler.options
    decodingReqOption,    \* the decoding option on the request context
    rawQueryIn,           \* req.URL.RawQuery as Intercept received it
    rawQuery              \* req.URL.RawQuery as passed to pipeline.Next

pvars ==
    <<ppc, decodingOptions, decodingReqOption, rawQueryIn, rawQuery>>

DecodingInit ==
    /\ ppc = "idle"
    /\ decodingOptions = [Enable |-> TRUE, ParametersToDecode |-> DefaultParametersToDecode]
    /\ decodingReqOption = NoDecodingOption
    /\ rawQueryIn = <<>>
    /\ rawQuery = <<>>

\* Intercept up to its call of pipeline.Next.
DecodingIntercept(opts, requestOption, query) ==
    LET
        \* The raw query Intercept passes on.
        decodedRawQuery(reqOption, raw) ==
            IF reqOption.Enable /\ Len(reqOption.ParametersToDecode) # 0 /\ Contains(raw, <<"%">>)
            THEN decodeParameters(raw, reqOption.ParametersToDecode)
            ELSE raw
    IN
        /\ ppc = "idle"
        /\ ppc' = "next"
        /\ decodingOptions' = opts
        /\ decodingReqOption' = requestOption
        /\ rawQueryIn' = query
        /\ rawQuery' = decodedRawQuery(IF requestOption = NoDecodingOption THEN opts ELSE requestOption, query)

\* pipeline.Next returns, with a response or with an error.
DecodingNextReturns ==
    /\ ppc = "next"
    /\ ppc' = "done"
    /\ UNCHANGED <<decodingOptions, decodingReqOption, rawQueryIn, rawQuery>>

DecodingNext ==
    LET
        \* The options tried, for the handler and for the request context; the
        \* line feed is a byte below 0x10.
        ParametersNameDecodingOptions ==
            [Enable : BOOLEAN, ParametersToDecode : {DefaultParametersToDecode, <<>>, <<"-">>, <<"\n", "-">>}]
        DecodingRequestOptions ==
            {NoDecodingOption, [Enable |-> TRUE, ParametersToDecode |-> <<"$">>]}
        RawQueries ==
            {<<>>, <<"q", "%", "2", "D", "1">>, <<"q", "%", "0", "A", "%", "2", "d", "=", "%", "0", "a">>}
            \cup RawQueriesOf(MaxParameters)
    IN
        \/ ppc = "idle" /\ \E opts \in ParametersNameDecodingOptions, requestOption \in DecodingRequestOptions,
                              query \in RawQueries :
                                DecodingIntercept(opts, requestOption, query)
        \/ DecodingNextReturns

(***************************************************************************)
(* The middleware pipeline with the url-replace, user-agent and chaos       *)
(* handlers.  Paths and header values are sequences of characters.          *)
(***************************************************************************)

\* strings.Replace(s, old, new, n) for a non-empty old and n >= 0: the
\* first n occurrences are replaced, from left to right.
RECURSIVE Replace(_, _, _, _)
Replace(s, old, new, n) ==
    IF n = 0 \/ Len(s) < Len(old) THEN s
    ELSE IF SubSeq(s, 1, Len(old)) = old
    THEN new \o Replace(SubSeq(s, Len(old) + 1, Len(s)), old, new, n - 1)
    ELSE <<s[1]>> \o Replace(Tail(s), old, new, n)

\* ReplacePathTokens; replacementPairs is the map as the range statement
\* iterates it: a sequence of <<key, value>> pairs.
RECURSIVE ReplacePathTokens(_, _)
ReplacePathTokens(path, replacementPairs) ==
    IF replacementPairs = <<>> THEN path
    ELSE ReplacePathTokens(Replace(path, Head(replacementPairs)[1], Head(replacementPairs)[2], 1),
                           Tail(replacementPairs))

\* The orders in which a range statement may iterate a map, given as a set
\* of <<key, value>> pairs: Go leaves the order unspecified.
IterationOrders(pairs) ==
    {order \in [1..Cardinality(pairs) -> pairs] :
        \A i, j \in 1..Cardinality(pairs) : i # j => order[i] # order[j]}

\* Variant: the Enabled option is not consulted.
urlReplacePath_IgnoresEnabled(enabled, path, replacementPairs) ==
    ReplacePathTokens(path, replacementPairs)

\* The path UrlReplaceHandler.Intercept passes on, for one iteration order
\* of the replacement map.
urlReplacePath(enabled, path, replacementPairs) ==
    IF ~enabled \/ Len(replacementPairs) = 0 THEN path
    ELSE ReplacePathTokens(path, replacementPairs)

\* Variant: the value is appended without looking for it.
userAgentValue_AlwaysAppends(enabled, current, productName, productVersion) ==
    IF ~enabled THEN current
    ELSE IF current = <<>> THEN productName \o <<"/">> \o productVersion
    ELSE current \o <<" ">> \o productName \o <<"/">> \o productVersion

\* The User-Agent value the user-agent handler passes on:
\* productName/productVersion is appended unless the value holds it.
userAgentValue(enabled, current, productName, productVersion) ==
    LET appended(additionalValue) ==
            IF current = <<>> THEN additionalValue
            ELSE IF Contains(current, additionalValue) THEN current
            ELSE current \o <<" ">> \o additionalValue
    IN IF enabled THEN appended(productName \o <<"/">> \o productVersion) ELSE current

\* Variant: a Manual strategy without status code is accepted.
NewChaosHandlerWithOptions_AcceptsManualZero(handlerOptions) ==
    IF handlerOptions.ChaosPercentage < 0 \/ handlerOptions.ChaosPercentage > 100
    THEN [isNil |-> TRUE, options |-> handlerOptions, err |-> "ChaosPercentage must be between 0 and 100"]
    ELSE [isNil |-> FALSE, options |-> handlerOptions, err |-> "nil"]

\* NewChaosHandlerWithOptions: the handler or nil (isNil), the error, and
\* the options it was called with.
NewChaosHandlerWithOptions(handlerOptions) ==
    IF handlerOptions.ChaosPercentage < 0 \/ handlerOptions.ChaosPercentage > 100
    THEN [isNil |-> TRUE, options |-> handlerOptions, err |-> "ChaosPercentage must be between 0 and 100"]
    ELSE IF handlerOptions.ChaosStrategy = "Manual" /\ handlerOptions.StatusCode = 0
    THEN [isNil |-> TRUE, options |-> handlerOptions, err |-> "invalid status code for manual strategy"]
    ELSE [isNil |-> FALSE, options |-> handlerOptions, err |-> "nil"]

\* methodStatusCode: the status codes listed for a method, none for a
\* method that is not a key of the map.
methodStatusCode(method) ==
    CASE method = "GET" -> {429, 500, 502, 503, 504}
      [] method \in {"POST", "PUT", "DELETE"} -> {429, 500, 502, 503, 504, 507}
      [] method = "PATCH" -> {429, 500, 502, 503, 504429, 500, 502, 503, 504}
      [] OTHER -> {}

\* generateRandomStatusCode: what it may return; indexing the empty list
\* with rand.Intn(0) panics.
generateRandomStatusCode(method) ==
    IF methodStatusCode(method) = {}
    THEN {[panics |-> TRUE, statusCode |-> 0]}
    ELSE [panics : {FALSE}, statusCode : methodStatusCode(method)]

\* getStatusCode for options without a StatusMap; randomStatusCode is the
\* outcome of generateRandomStatusCode, which is called only at the end.
getStatusCode(handlerOptions, randomStatusCode) ==
    IF handlerOptions.ChaosStrategy = "Manual"
    THEN [panics |-> FALSE, statusCode |-> handlerOptions.StatusCode]
    ELSE IF handlerOptions.ChaosStrategy = "Random" /\ handlerOptions.StatusCode > 0
    THEN [panics |-> FALSE, statusCode |-> handlerOptions.StatusCode]
    ELSE randomStatusCode

\* createResponseBody: the response configured by the caller, or a new one
\* with the status code.
createResponseBody(handlerOptions, statusCode) ==
    IF handlerOptions.ResponseBody # 0
    THEN [StatusCode |-> handlerOptions.ResponseBody, from |-> "ResponseBody"]
    ELSE [StatusCode |-> statusCode, from |-> "chaos"]

\* GetDefaultMiddlewares: the kinds of the handlers, in order.
GetDefaultMiddlewares ==
    <<"retry", "redirect", "compression", "parametersNameDecoding">>

\* A handler of a chain: its kind and its Enabled option (url-replace and
\* user-agent).
Handler(kind, enabled) ==
    [kind |-> kind, Enabled |-> enabled]

\* Longest chain built from the url-replace, user-agent and
\* headers-inspection handlers.
MaxChain ==
    3

\* The chains tried: every chain up to MaxChain of enabled url-replace,
\* enabled user-agent and headers-inspection handlers; chains of disabled
\* url-replace and user-agent handlers; chains around a chaos handler;
\* chains of proxy-authentication handlers, whose Enabled stands for
\* HasAuthentication (user name and password are there); and the chain of
\* GetDefaultMiddlewares.
RECURSIVE ChainsUpTo(_, _)
ChainsUpTo(handlers, n) ==
    IF n = 0 THEN {<<>>}
    ELSE ChainsUpTo(handlers, n - 1)
         \cup {Append(c, h) : c \in {c \in ChainsUpTo(handlers, n - 1) : Len(c) = n - 1}, h \in handlers}

Chains ==
    LET other == Handler("headersInspection", TRUE)
        chaos == Handler("chaos", TRUE)
    IN [factory : {"NewCustomTransport"},
        chain : ChainsUpTo({Handler("urlReplace", TRUE), Handler("userAgent", TRUE), other}, MaxChain)
                \cup (ChainsUpTo({Handler("urlReplace", FALSE), Handler("userAgent", FALSE)}, 2) \ {<<>>})
                \cup {<<chaos>>, <<other, chaos>>, <<chaos, other>>, <<other, chaos, other>>}
                \cup (ChainsUpTo({Handler("proxyAuthentication", TRUE), Handler("proxyAuthentication", FALSE)}, 2)
                          \ {<<>>})]
       \cup {[factory |-> "GetDefaultClient",
              chain |-> [i \in 1..Len(GetDefaultMiddlewares) |-> Handler(GetDefaultMiddlewares[i], TRUE)]]}

\* "reqOption, ok := req.Context().Value(key); if !ok { reqOption = &c.options }"
enabledFor(requestOption, handlerEnabled) ==
    IF requestOption = "none" THEN handlerEnabled ELSE requestOption = "enabled"

VARIABLES
    lpc,                 \* idle, constructed (a chaos handler or an error), running, done, panicked
    chaosHandler,        \* what the chaos constructor returned
    ReplacementPairs,    \* the process-wide replacement map
    factory,             \* how the transport was built
    chain,               \* the handlers of the pipeline
    middlewareIndex,     \* the position pipeline.Next was called with last
    yielding,            \* TRUE on the way to the transport, FALSE on the way back
    preq,                \* the request
    presponse,           \* the response on its way back
    entered,             \* the positions whose Intercept was called, in order
    returned,            \* the positions whose Intercept returned, in order
    roundTrips,          \* the number of round trips of the transport
    authenticationHeader \* options.authenticationHeader of the handler at each position of the chain

lvars ==
    <<lpc, chaosHandler, ReplacementPairs, factory, chain, middlewareIndex, yielding, preq, presponse,
      entered, returned, roundTrips, authenticationHeader>>

PipelineInit ==
    LET
        \* NewChaosHandler
        NewChaosHandler ==
            [isNil |-> FALSE,
             options |-> [ChaosStrategy |-> "Random", StatusCode |-> 0, ChaosPercentage |-> 10, ResponseBody |-> 0],
             err |-> "nil"]
        NoPipelineResponse ==
            [StatusCode |-> 0, from |-> "none"]
    IN
        /\ lpc = "idle"
        /\ chaosHandler = NewChaosHandler
        /\ ReplacementPairs = {<<<<"/", "u", "s", "e", "r", "s", "/", "m", "e", "-", "t", "o", "k", "e", "n", "-", "t", "o", "-", "r", "e", "p", "l", "a", "c", "e">>, <<"/", "m", "e">>>>}
        /\ factory = "GetDefaultClient"
        /\ chain = <<>>
        /\ middlewareIndex = 0
        /\ yielding = TRUE
        /\ preq = [Method |-> "GET", Path |-> <<"/", "x">>, RawQuery |-> <<"t", "=", "/", "a">>, UserAgent |-> <<>>,
                   urlReplaceOption |-> "none", userAgentOption |-> "none",
                   ProxyAuthorization |-> <<>>, ContentType |-> <<>>]
        /\ presponse = NoPipelineResponse
        /\ entered = <<>>
        /\ returned = <<>>
        /\ roundTrips = 0
        /\ authenticationHeader = <<>>

\* A caller constructs a chaos handler.
ChaosConstruct(handlerOptions) ==
    /\ lpc = "idle"
    /\ lpc' = "constructed"
    /\ chaosHandler' = NewChaosHandlerWithOptions(handlerOptions)
    /\ UNCHANGED <<ReplacementPairs, factory, chain, middlewareIndex, yielding, preq, presponse,
                   entered, returned, roundTrips, authenticationHeader>>

\* RoundTrip of the custom transport: pipeline.Next(req, 0).  A chain with
\* a chaos handler takes the handler constructed before.
PipelineRoundTrip(built, pairs, rq) ==
    /\ \/ /\ lpc = "idle" /\ \A i \in 1..Len(built.chain) : built.chain[i].kind # "chaos"
          /\ rq.Method = "GET"
       \/ /\ lpc = "constructed" /\ ~chaosHandler.isNil
          /\ \E i \in 1..Len(built.chain) : built.chain[i].kind = "chaos"
          /\ rq.Path = <<"/", "x">> /\ rq.UserAgent = <<>>
          /\ pairs = {}
    /\ lpc' = "running"
    /\ ReplacementPairs' = pairs
    /\ factory' = built.factory
    /\ chain' = built.chain
    /\ preq' = rq
    /\ authenticationHeader' = [i \in 1..Len(built.chain) |-> [isNil |-> TRUE, value |-> <<>>]]
    /\ UNCHANGED <<chaosHandler, middlewareIndex, yielding, presponse, entered, returned, roundTrips>>

\* pipeline.Next(req, middlewareIndex) dispatches to the handler at the
\* position, if there is one.
nextHandlerIs(kinds) ==
    /\ lpc = "running"
    /\ yielding
    /\ middlewareIndex < Len(chain)
    /\ chain[middlewareIndex + 1].kind \in kinds

yield_SkipsAHandler(rq) ==
    /\ preq' = rq
    /\ entered' = Append(entered, middlewareIndex)
    /\ middlewareIndex' = IF middlewareIndex + 2 <= Len(chain) THEN middlewareIndex + 2 ELSE middlewareIndex + 1
    /\ UNCHANGED <<lpc, chaosHandler, ReplacementPairs, factory, chain, yielding, presponse, returned, roundTrips>>

\* A handler calls pipeline.Next with the index it was handed, the one
\* after its own position.
yield(rq) ==
    /\ preq' = rq
    /\ entered' = Append(entered, middlewareIndex)
    /\ middlewareIndex' = middlewareIndex + 1
    /\ UNCHANGED <<lpc, chaosHandler, ReplacementPairs, factory, chain, yielding, presponse, returned, roundTrips>>

\* UrlReplaceHandler.Intercept up to its call of pipeline.Next; order is
\* the order in which the replacement map is iterated.
UrlReplaceIntercept(order) ==
    /\ nextHandlerIs({"urlReplace"})
    /\ yield([preq EXCEPT !.Path = urlReplacePath(enabledFor(preq.urlReplaceOption, chain[middlewareIndex + 1].Enabled),
                                                  preq.Path, order)])
    /\ UNCHANGED authenticationHeader

\* The user-agent handler up to its call of pipeline.Next.
UserAgentIntercept ==
    /\ nextHandlerIs({"userAgent"})
    /\ yield([preq EXCEPT !.UserAgent = userAgentValue(enabledFor(preq.userAgentOption, chain[middlewareIndex + 1].Enabled),
                                                       preq.UserAgent, <<"k", "i", "o", "t", "a", "-", "g", "o">>, <<"1", ".", "0">>)])
    /\ UNCHANGED authenticationHeader

\* ChaosHandler.Intercept: it answers with createChaosResponse, which may
\* panic in generateRandomStatusCode, or calls pipeline.Next; drawn is
\* rand.Intn(100).
ChaosIntercept(drawn, randomStatusCode) ==
    LET
        \* "if rand.Intn(100) < middleware.options.ChaosPercentage": TRUE when
        \* the handler answers itself.
        chaosAnswers(handlerOptions, n) ==
            n < handlerOptions.ChaosPercentage
    IN
        /\ nextHandlerIs({"chaos"})
        /\ UNCHANGED authenticationHeader
        /\ IF ~chaosAnswers(chaosHandler.options, drawn)
           THEN yield(preq)
           ELSE IF getStatusCode(chaosHandler.options, randomStatusCode).panics
           THEN /\ lpc' = "panicked"
                /\ entered' = Append(entered, middlewareIndex)
                /\ UNCHANGED <<chaosHandler, ReplacementPairs, factory, chain, middlewareIndex, yielding, preq,
                               presponse, returned, roundTrips>>
           ELSE /\ presponse' = createResponseBody(chaosHandler.options,
                                                   getStatusCode(chaosHandler.options, randomStatusCode).statusCode)
                /\ yielding' = FALSE
                /\ entered' = Append(entered, middlewareIndex)
                /\ middlewareIndex' = middlewareIndex + 1
                /\ UNCHANGED <<lpc, chaosHandler, ReplacementPairs, factory, chain, preq, returned, roundTrips>>

\* base64.StdEncoding.EncodeToString for bytes that are lower-case letters
\* or ':'.
EncodeToString(src) ==
    LET alphabet == UpperChars \o LowerChars \o Digits \o <<"+", "/">>
        byte(c) == IF c = ":" THEN 58 ELSE 96 + (CHOOSE i \in 1..26 : LowerChars[i] = c)
        sextet(n) == alphabet[n + 1]
        RECURSIVE encode(_)
        encode(b) ==
            IF Len(b) = 0 THEN <<>>
            ELSE IF Len(b) = 1
            THEN <<sextet(byte(b[1]) \div 4), sextet((byte(b[1]) % 4) * 16), "=", "=">>
            ELSE IF Len(b) = 2
            THEN <<sextet(byte(b[1]) \div 4),
                   sextet((byte(b[1]) % 4) * 16 + byte(b[2]) \div 16),
                   sextet((byte(b[2]) % 16) * 4), "=">>
            ELSE <<sextet(byte(b[1]) \div 4),
                   sextet((byte(b[1]) % 4) * 16 + byte(b[2]) \div 16),
                   sextet((byte(b[2]) % 16) * 4 + byte(b[3]) \div 64),
                   sextet(byte(b[3]) % 64)>> \o encode(SubSeq(b, 4, Len(b)))
    IN encode(src)

\* ProxyAuthenticationHandler.Intercept up to its call of pipeline.Next,
\* for a request without a proxy-authentication option on its context, so
\* that reqOption is &p.options.  GetAuthenticationHeader stores the header
\* in the options when it is not there yet; the headers are added with
\* Header.Add, which appends to the values there.
ProxyAuthenticationIntercept(userName, password) ==
    /\ nextHandlerIs({"proxyAuthentication"})
    /\ IF ~chain[middlewareIndex + 1].Enabled
       THEN yield(preq) /\ UNCHANGED authenticationHeader
       ELSE \E header \in {IF authenticationHeader[middlewareIndex + 1].isNil
                            THEN userName \o <<":">> \o password
                            ELSE authenticationHeader[middlewareIndex + 1].value} :
              /\ authenticationHeader' = [authenticationHeader EXCEPT ![middlewareIndex + 1] =
                                              [isNil |-> FALSE, value |-> header]]
              /\ yield([preq EXCEPT
                          !.ProxyAuthorization = Append(@, <<"B", "a", "s", "i", "c", " ">> \o EncodeToString(header)),
                          !.ContentType = Append(@, "application/x-www-form-urlencoded")])

\* The retry, redirect, compression, parameter-name decoding and
\* headers-inspection handlers for a GET request without body, without an
\* encoded query and with a response that is neither retried nor followed:
\* one call of pipeline.Next with the request.
PassingIntercept ==
    /\ nextHandlerIs({"retry", "redirect", "compression", "parametersNameDecoding", "headersInspection"})
    /\ yield(preq)
    /\ UNCHANGED authenticationHeader

\* pipeline.Next past the last handler: the round trip of the transport.
TransportRoundTrip ==
    /\ lpc = "running"
    /\ yielding
    /\ middlewareIndex = Len(chain)
    /\ roundTrips' = roundTrips + 1
    /\ presponse' = [StatusCode |-> 200, from |-> "transport"]
    /\ yielding' = FALSE
    /\ lpc' = IF middlewareIndex = 0 THEN "done" ELSE lpc
    /\ UNCHANGED <<chaosHandler, ReplacementPairs, factory, chain, middlewareIndex, preq, entered, returned,
                   authenticationHeader>>

\* pipeline.Next returns to the handler that called it, and the handler
\* returns the response.
InterceptReturns ==
    /\ lpc = "running"
    /\ ~yielding
    /\ middlewareIndex > 0
    /\ returned' = Append(returned, middlewareIndex - 1)
    /\ middlewareIndex' = middlewareIndex - 1
    /\ lpc' = IF middlewareIndex = 1 THEN "done" ELSE lpc
    /\ UNCHANGED <<chaosHandler, ReplacementPairs, factory, chain, yielding, preq, presponse, entered, roundTrips,
                   authenticationHeader>>

PipelineNext ==
    LET
        \* The options NewChaosHandlerWithOptions is called with; ResponseBody is
        \* the status code of the response the caller configured, 0 for none.
        ChaosHandlerOptions ==
            [ChaosStrategy : {"Manual", "Random"}, StatusCode : {0, 503},
             ChaosPercentage : {-1, 0, 40, 100, 101}, ResponseBody : {0, 418}]
        \* The process-wide replacement maps tried: the default one, none, and two
        \* pairs of which one produces the token of the other.
        ReplacementMaps ==
            {{<<<<"/", "u", "s", "e", "r", "s", "/", "m", "e", "-", "t", "o", "k", "e", "n", "-", "t", "o", "-", "r", "e", "p", "l", "a", "c", "e">>, <<"/", "m", "e">>>>}, {}, {<<<<"/", "a">>, <<"/", "b">>>>, <<<<"/", "b">>, <<"/", "c">>>>}}
        \* The requests tried: GET requests without body; the options are the
        \* url-replace and the user-agent option on the request context.
        PipelineRequests ==
            [Method : {"GET"},
             Path : {<<"/", "u", "s", "e", "r", "s", "/", "m", "e", "-", "t", "o", "k", "e", "n", "-", "t", "o", "-", "r", "e", "p", "l", "a", "c", "e", "/", "x", "/", "u", "s", "e", "r", "s", "/", "m", "e", "-", "t", "o", "k", "e", "n", "-", "t", "o", "-", "r", "e", "p", "l", "a", "c", "e">>, <<"/", "a", "/", "a", "/", "b">>, <<"/", "x">>},
             RawQuery : {<<"t", "=", "/", "a">>},
             UserAgent : {<<>>, <<"a", "p", "p", "/", "2">>},
             urlReplaceOption : {"none"},
             userAgentOption : {"none"},
                  ProxyAuthorization : {<<>>}, ContentType : {<<>>}]
            \cup [Method : {"GET"}, Path : {<<"/", "a", "/", "a", "/", "b">>}, RawQuery : {<<"t", "=", "/", "a">>}, UserAgent : {<<"a", "p", "p", "/", "2">>},
                  urlReplaceOption : {"none", "enabled", "disabled"},
                  userAgentOption : {"none", "enabled", "disabled"},
                  ProxyAuthorization : {<<>>}, ContentType : {<<>>}]
            \cup [Method : {"POST", "PUT", "PATCH", "DELETE", "HEAD"}, Path : {<<"/", "x">>}, RawQuery : {<<"t", "=", "/", "a">>},
                  UserAgent : {<<>>}, urlReplaceOption : {"none"}, userAgentOption : {"none"},
                  ProxyAuthorization : {<<>>}, ContentType : {<<>>}]
    IN
        \/ lpc = "idle" /\ \E handlerOptions \in ChaosHandlerOptions : ChaosConstruct(handlerOptions)
        \/ lpc \in {"idle", "constructed"} /\ \E built \in Chains, pairs \in ReplacementMaps, rq \in PipelineRequests :
                                                 PipelineRoundTrip(built, pairs, rq)
        \/ \E order \in IterationOrders(ReplacementPairs) : UrlReplaceIntercept(order)
        \/ UserAgentIntercept
        \/ \E drawn \in {0, 39, 40, 99}, randomStatusCode \in generateRandomStatusCode(preq.Method) :
              ChaosIntercept(drawn, randomStatusCode)
        \/ ProxyAuthenticationIntercept(<<"u", "s", "e", "r">>, <<"p", "a", "s", "s">>)
        \/ PassingIntercept
        \/ TransportRoundTrip
        \/ InterceptReturns

(***************************************************************************)
(* The request context of the adapter (prepareContext and                   *)
(* getRequestFromRequestInformation).  A context is the sequence of the     *)
(* <<key, value>> pairs attached with context.WithValue, oldest first; a    *)
(* request option is a record [key, value], its key being GetKey().         *)
(***************************************************************************)

\* context.WithValue(ctx, key, val)
WithValue(ctx, key, val) ==
    Append(ctx, <<key, val>>)

\* ctx.Value(key): the value attached last under the key, "nil" without one.
RECURSIVE Value(_, _)
Value(ctx, key) ==
    IF ctx = <<>> THEN "nil"
    ELSE IF ctx[Len(ctx)][1] = key THEN ctx[Len(ctx)][2]
    ELSE Value(SubSeq(ctx, 1, Len(ctx) - 1), key)

\* "for _, value := range requestInfo.GetRequestOptions() {
\*      ctx = context.WithValue(ctx, value.GetKey(), value) }"
RECURSIVE withRequestOptions(_, _)
withRequestOptions(ctx, options) ==
    IF options = <<>> THEN ctx
    ELSE withRequestOptions(WithValue(ctx, Head(options).key, Head(options).value), Tail(options))

\* prepareContext: the context the Send methods of nethttp_request_adapter.go
\* pass on (the deadline is left out).
prepareContext(ctx, options) ==
    WithValue(withRequestOptions(ctx, options), "observabilityOptions", "adapter")

\* The context of the request built by getRequestFromRequestInformation as
\* it stands beside the adapter's tests:
\* "for _, value := range requestInfo.GetRequestOptions() {
\*      request = request.WithContext(context.WithValue(ctx, value.GetKey(), value)) }"
\* Every turn of the loop starts from ctx again.
RECURSIVE getRequestFromRequestInformation(_, _, _)
getRequestFromRequestInformation(ctx, options, requestContext) ==
    IF options = <<>> THEN requestContext
    ELSE getRequestFromRequestInformation(ctx, Tail(options),
                                          WithValue(ctx, Head(options).key, Head(options).value))

\* Largest number of request options on a request-info.
MaxOptions ==
    3

\* The request options tried: up to MaxOptions options under the keys of
\* the retry and the redirect handler, each with one of two values.
RECURSIVE RequestOptionsUpTo(_)
RequestOptionsUpTo(n) ==
    IF n = 0 THEN {<<>>}
    ELSE LET shorter == RequestOptionsUpTo(n - 1)
         IN shorter \cup {Append(o, v) : o \in {o \in shorter : Len(o) = n - 1},
                                         v \in [key : {"RetryHandler", "RedirectHandler"}, value : {"a", "b"}]}

VARIABLES
    kpc,                 \* idle, built (before httpClient.Do), sent (a response is awaited), done
    prepares,            \* TRUE when the Send method calls prepareContext
    requestOptions,      \* requestInfo.GetRequestOptions()
    sendCtx,             \* the ctx getHttpResponseMessage is called with
    sentClaims,          \* the claims getHttpResponseMessage is called with
    dispatchedCtx        \* the context of each request passed to httpClient.Do

kvars ==
    <<kpc, prepares, requestOptions, sendCtx, sentClaims, dispatchedCtx>>

ContextInit ==
    /\ kpc = "idle"
    /\ prepares = TRUE
    /\ requestOptions = <<>>
    /\ sendCtx = <<>>
    /\ sentClaims = ""
    /\ dispatchedCtx = <<>>

\* Send of nethttp_request_adapter.go up to its call of
\* getHttpResponseMessage(ctx, requestInfo, "", span).
ContextSend(ctx, options) ==
    /\ kpc = "idle"
    /\ kpc' = "built"
    /\ prepares' = TRUE
    /\ requestOptions' = options
    /\ sendCtx' = prepareContext(ctx, options)
    /\ UNCHANGED <<sentClaims, dispatchedCtx>>

\* SendAsync as it stands beside the adapter's tests: it calls
\* getHttpResponseMessage(ctx, requestInfo, "") with the caller's context.
ContextSendAsync(ctx, options) ==
    /\ kpc = "idle"
    /\ kpc' = "built"
    /\ prepares' = FALSE
    /\ requestOptions' = options
    /\ sendCtx' = ctx
    /\ UNCHANGED <<sentClaims, dispatchedCtx>>

\* getHttpResponseMessage: the request is built and passed to
\* httpClient.Do.
ContextDispatch ==
    /\ kpc = "built"
    /\ kpc' = "sent"
    /\ dispatchedCtx' = Append(dispatchedCtx,
                               IF prepares THEN sendCtx
                               ELSE getRequestFromRequestInformation(sendCtx, requestOptions, sendCtx))
    /\ UNCHANGED <<prepares, requestOptions, sendCtx, sentClaims>>

\* retryCAEResponseIfRequired: after a 401 with a claims challenge and
\* without claims sent, getHttpResponseMessage is called again with the same
\* ctx and request-info; any other response is returned.
ContextResponse(challenged) ==
    /\ kpc = "sent"
    /\ IF challenged /\ sentClaims = ""
       THEN kpc' = "built" /\ sentClaims' = "eyJ"
       ELSE kpc' = "done" /\ UNCHANGED sentClaims
    /\ UNCHANGED <<prepares, requestOptions, sendCtx, dispatchedCtx>>

ContextNext ==
    LET
        \* The contexts of the caller: an empty one, and one that holds a value
        \* of the caller and an older redirect option.
        CallerContexts ==
            {<<>>, <<<<"caller", "c">>, <<"RedirectHandler", "old">>>>}
    IN
        \/ kpc = "idle" /\ \E ctx \in CallerContexts, options \in RequestOptionsUpTo(MaxOptions) : ContextSend(ctx, options)
        \/ kpc = "idle" /\ \E ctx \in CallerContexts, options \in RequestOptionsUpTo(MaxOptions) : ContextSendAsync(ctx, options)
        \/ ContextDispatch
        \/ \E challenged \in BOOLEAN : ContextResponse(challenged)

(***************************************************************************)
(* One request through the retry, redirect and compression handlers of the  *)
(* default chain, in the order of GetDefaultMiddlewares, down to the        *)
(* transport.  A request is the pair of what the compression handler tests: *)
(* whether it carries Content-Encoding and whether it has a body.  The      *)
(* handlers below the compression handler pass a request on once and are    *)
(* left out, as are the waits of the retry handler.                         *)
(***************************************************************************)

\* Largest max-retries option of the chain tried.
MaxChainRetries ==
    2

\* CompressionHandler.Intercept up to pipeline.Next, on the request object
\* rq: the request as passed on, and whether its body was compressed.
compressionDispatch(enabled, rq) ==
    IF ShouldCompress(enabled, "none") /\ ~rq.encoded /\ rq.hasBody
    THEN [request |-> [rq EXCEPT !.encoded = TRUE], gzipped |-> TRUE]
    ELSE [request |-> rq, gzipped |-> FALSE]

VARIABLES
    tpc,                 \* idle, transport (a request is with the transport), done
    chainOptions,        \* the options of the three handlers
    retriedRequest,      \* the request object the retry handler holds
    transportRequest,    \* the request object with the transport
    chainAttempt,        \* executionCount of the retry handler
    chainRedirects,      \* redirectCount of the running RedirectHandler.Intercept call
    chainGzipped,        \* the running CompressionHandler.Intercept call compressed the body
    transportRoundTrips  \* number of round trips of the transport

tvars ==
    <<tpc, chainOptions, retriedRequest, transportRequest, chainAttempt, chainRedirects,
      chainGzipped, transportRoundTrips>>

\* The handlers as NewRetryHandler, NewRedirectHandler and
\* NewCompressionHandler build them.
DefaultChainInit ==
    /\ tpc = "idle"
    /\ chainOptions = [maxRetries |-> 3, shouldRetry |-> "default",
                       MaxRedirects |-> defaultMaxRedirects, ShouldRedirect |-> "nil",
                       enableCompression |-> TRUE]
    /\ retriedRequest = [encoded |-> FALSE, hasBody |-> FALSE]
    /\ transportRequest = [encoded |-> FALSE, hasBody |-> FALSE]
    /\ chainAttempt = 0
    /\ chainRedirects = 0
    /\ chainGzipped = FALSE
    /\ transportRoundTrips = 0

\* A request enters the chain: each handler passes it to the next, the
\* compression handler after compressing its body in place.
DefaultChainSend(options, rq) ==
    /\ tpc = "idle"
    /\ tpc' = "transport"
    /\ chainOptions' = options
    /\ \E sent \in {compressionDispatch(options.enableCompression, rq)} :
          /\ transportRequest' = sent.request
          /\ retriedRequest' = sent.request
          /\ chainGzipped' = sent.gzipped
    /\ UNCHANGED <<chainAttempt, chainRedirects, transportRoundTrips>>

\* The transport fails: the error passes through the three handlers.
DefaultChainRoundTripFails ==
    /\ tpc = "transport"
    /\ tpc' = "done"
    /\ transportRoundTrips' = transportRoundTrips + 1
    /\ UNCHANGED <<chainOptions, retriedRequest, transportRequest, chainAttempt, chainRedirects, chainGzipped>>

\* The transport answers with resp.  The compression handler sends the
\* request again uncompressed after a 415 to a compressed body and returns
\* whatever comes next; the redirect handler follows a redirect with a
\* clone of the request while its count allows; the retry handler sends
\* its request again, through a new Intercept call of the redirect handler,
\* while the answer is retryable and attempts are left.
DefaultChainRoundTrip(resp) ==
    LET follows ==
            /\ isRedirectResponse(resp)
            /\ chainRedirects < GetMaxRedirect(chainOptions)
            /\ shouldRedirect(chainOptions.ShouldRedirect)
        locationHeaderValue ==
            IF resp.Location[1] = "/" THEN <<"h", "t", "t", "p", ":", "/", "/", "a">> \o resp.Location
            ELSE resp.Location
        clone ==
            IF resp.StatusCode = seeOther THEN [transportRequest EXCEPT !.hasBody = FALSE]
            ELSE transportRequest
        uncompressed ==
            [transportRequest EXCEPT !.encoded = FALSE]
    IN /\ tpc = "transport"
       /\ transportRoundTrips' = transportRoundTrips + 1
       /\ UNCHANGED chainOptions
       /\ IF chainGzipped /\ isUnsupportedMediaType(resp.StatusCode)
          THEN /\ transportRequest' = uncompressed
               /\ retriedRequest' = IF chainRedirects = 0 THEN uncompressed ELSE retriedRequest
               /\ chainGzipped' = FALSE
               /\ UNCHANGED <<tpc, chainAttempt, chainRedirects>>
          ELSE IF follows /\ urlParse(locationHeaderValue).err # "nil"
          THEN /\ tpc' = "done"
               /\ chainRedirects' = chainRedirects + 1
               /\ UNCHANGED <<retriedRequest, transportRequest, chainAttempt, chainGzipped>>
          ELSE IF follows
          THEN \E sent \in {compressionDispatch(chainOptions.enableCompression, clone)} :
                  /\ transportRequest' = sent.request
                  /\ chainGzipped' = sent.gzipped
                  /\ chainRedirects' = chainRedirects + 1
                  /\ UNCHANGED <<tpc, retriedRequest, chainAttempt>>
          ELSE IF /\ ShouldRetry(chainOptions.shouldRetry, resp.StatusCode)
                  /\ attemptsLeft(chainAttempt, chainOptions.maxRetries)
          THEN \E sent \in {compressionDispatch(chainOptions.enableCompression, retriedRequest)} :
                  /\ transportRequest' = sent.request
                  /\ retriedRequest' = sent.request
                  /\ chainGzipped' = sent.gzipped
                  /\ chainAttempt' = chainAttempt + 1
                  /\ chainRedirects' = 0
                  /\ UNCHANGED tpc
          ELSE /\ tpc' = "done"
               /\ UNCHANGED <<retriedRequest, transportRequest, chainAttempt, chainRedirects, chainGzipped>>

DefaultChainNext ==
    LET
        \* The options tried; a maximum of 0 redirects stands for the default.
        ChainOptions ==
            [maxRetries : 1..MaxChainRetries, shouldRetry : {"default", "always"},
             MaxRedirects : {0, 1, 2}, ShouldRedirect : {"nil", "false"},
             enableCompression : BOOLEAN]
        \* The requests sent: with and without a body, none with Content-Encoding.
        ChainRequests ==
            [encoded : {FALSE}, hasBody : BOOLEAN]
        \* The answers of the server: final ones, a 415, a retryable 429, and
        \* redirects to /p, to :p, which does not parse, and without Location.
        ChainResponses ==
            [StatusCode : {200, 415, 429}, Location : {<<>>}]
            \cup [StatusCode : {seeOther, temporaryRedirect}, Location : {<<"/", "p">>, <<":", "p">>}]
            \cup {[StatusCode |-> temporaryRedirect, Location |-> <<>>]}
    IN
        \/ \E options \in ChainOptions, rq \in ChainRequests : DefaultChainSend(options, rq)
        \/ DefaultChainRoundTripFails
        \/ \E resp \in ChainResponses : DefaultChainRoundTrip(resp)

(***************************************************************************)
(* Specifications: one Send call of the adapter; one Intercept call of the  *)
(* retry handler; one Intercept call of each of the redirect, compression   *)
(* and parameter-name decoding handlers; one round trip of a request        *)
(* through a pipeline; the request context of one Send call; one request    *)
(* through the retry, redirect and compression handlers together.           *)
(***************************************************************************)

vars ==
    <<avars, rvars, dvars, cvars, pvars, lvars, kvars, tvars>>

Init ==
    AdapterInit /\ RetryInit /\ RedirectInit /\ CompressionInit /\ DecodingInit /\ PipelineInit
    /\ ContextInit /\ DefaultChainInit

Next ==
    AdapterNext /\ UNCHANGED <<rvars, dvars, cvars, pvars, lvars, kvars, tvars>>

Spec ==
    Init /\ [][Next]_vars

RetryHandlerNext ==
    RetryNext /\ UNCHANGED <<avars, dvars, cvars, pvars, lvars, kvars, tvars>>

RetrySpec ==
    Init /\ [][RetryHandlerNext]_vars

\* The sleep is a cancellable timer: a sleeping handler whose context is
\* done is woken.
RetryFairSpec ==
    RetrySpec /\ WF_vars(RetryWaitCancelled /\ UNCHANGED <<avars, dvars, cvars, pvars, lvars, kvars, tvars>>)

RedirectHandlerNext ==
    RedirectNext /\ UNCHANGED <<avars, rvars, cvars, pvars, lvars, kvars, tvars>>

RedirectSpec ==
    Init /\ [][RedirectHandlerNext]_vars

CompressionHandlerNext ==
    CompressionNext /\ UNCHANGED <<avars, rvars, dvars, pvars, lvars, kvars, tvars>>

CompressionSpec ==
    Init /\ [][CompressionHandlerNext]_vars

DecodingHandlerNext ==
    DecodingNext /\ UNCHANGED <<avars, rvars, dvars, cvars, lvars, kvars, tvars>>

DecodingSpec ==
    Init /\ [][DecodingHandlerNext]_vars

PipelineHandlerNext ==
    PipelineNext /\ UNCHANGED <<avars, rvars, dvars, cvars, pvars, kvars, tvars>>

PipelineSpec ==
    Init /\ [][PipelineHandlerNext]_vars

ContextHandlerNext ==
    ContextNext /\ UNCHANGED <<avars, rvars, dvars, cvars, pvars, lvars, tvars>>

ContextSpec ==
    Init /\ [][ContextHandlerNext]_vars

DefaultChainHandlerNext ==
    DefaultChainNext /\ UNCHANGED <<avars, rvars, dvars, cvars, pvars, lvars, kvars>>

DefaultChainSpec ==
    Init /\ [][DefaultChainHandlerNext]_vars

(***************************************************************************)
(* Properties of the request adapter.                                       *)
(***************************************************************************)

\* The call has left the Send operation, by a return or by a panic.
Exited ==
    apc \in {"returned", "panicked"}

\* The response the Send operation works on after getHttpResponseMessage.
TerminalResponse ==
    responses[response]

\* C1: within one Send call the CAE retry happens at most once: the
\* authentication provider is called at most twice, at most two requests
\* are dispatched, and a second 401 with a Bearer claims challenge is not
\* retried: the call goes on to the response handler or to the error
\* mapping with that second response.
C1_CAERetryAtMostOnce ==
    /\ Len(authCalls) <= 2
    /\ dispatched <= 2
    /\ Len(responses) <= 2
    /\ Len(responses) = 2 => apc \in {"respond", "returned", "panicked"}
    /\ (response = 2 /\ apc = "returned" /\ responses[2].status = 401) =>
          IF responseHandler.present
          THEN handlerCalls = <<[response |-> 2, errorMappings |-> errorMappings]>>
          ELSE result.err.type \in {"ApiError", "factory", "error"}

C1_Witness ==
    /\ apc = "returned"
    /\ Len(responses) = 2
    /\ responses[1].wwwAuthenticate = HdrChallenge
    /\ responses[2].status = 401
    /\ responses[2].wwwAuthenticate = HdrChallenge
    /\ ~responseHandler.present
    /\ dispatched = 2

\* What the claim calls a Bearer challenge with a claims parameter: the
\* header starts with Bearer, and one of its comma-separated parameters is
\* named claims and has a non-empty quoted value.
IsQuotedNonEmpty(v) ==
    Len(v) > 2 /\ v[1] = "\"" /\ v[Len(v)] = "\""

IsClaimsParameter(p) ==
    LET t == Trim(p)
        eq == IndexFrom(t, "=", 1)
    IN /\ eq > 0
       /\ Trim(SubSeq(t, 1, eq - 1)) = claimsKey
       /\ IsQuotedNonEmpty(Trim(SubSeq(t, eq + 1, Len(t))))

QuotedClaimsOf(p) ==
    LET t == Trim(p)
        v == Trim(SubSeq(t, IndexFrom(t, "=", 1) + 1, Len(t)))
    IN SubSeq(v, 2, Len(v) - 1)

IsClaimsChallenge(resp) ==
    LET h == resp.wwwAuthenticate
        ps == Split(SubSeq(h, 7, Len(h)), ",")
    IN /\ resp.status = 401
       /\ Len(h) >= 6
       /\ FoldCase(SubSeq(h, 1, 6)) = BearerChars
       /\ \E i \in 1..Len(ps) : IsClaimsParameter(ps[i])

ChallengeClaimsOf(resp) ==
    LET h == resp.wwwAuthenticate
        ps == Split(SubSeq(h, 7, Len(h)), ",")
    IN QuotedClaimsOf(ps[CHOOSE i \in 1..Len(ps) : IsClaimsParameter(ps[i])])

\* C2: the adapter authenticates a second time if and only if the first
\* response is a 401 whose WWW-Authenticate header starts with Bearer and
\* has a claims parameter with a non-empty quoted value; the first
\* authentication receives no claims entry and the second receives the
\* extracted value under the key claims.
C2_RetryIffClaimsChallenge ==
    /\ Len(authCalls) >= 1 => authCalls[1] = {}
    /\ (Len(responses) >= 1 /\ apc # "authenticate") =>
          /\ (Len(authCalls) >= 2) <=> IsClaimsChallenge(responses[1])
          /\ Len(authCalls) >= 2 => authCalls[2] = {<<claimsKey, ChallengeClaimsOf(responses[1])>>}

\* C3: when a Send call that obtained a response and has no response
\* handler is left, every response received during the call has its body
\* read to the end and closed, the superseded 401 of a CAE retry included,
\* and the last one received is the one processed.
C3_BodiesClosedOnExit ==
    (Exited /\ ~responseHandler.present /\ Len(responses) >= 1) =>
        /\ \A i \in 1..Len(responses) : responses[i].closed /\ responses[i].unread = <<>>
        /\ response \in {0, Len(responses)}

\* The factory the claim selects for a status: the exact decimal string,
\* else the class entry of the status, else none ("").
ClaimedFactory(status, mappings) ==
    IF ToString(status) \in mappings THEN ToString(status)
    ELSE IF status \in 400..499 /\ "4XX" \in mappings THEN "4XX"
    ELSE IF status \in 500..599 /\ "5XX" \in mappings THEN "5XX"
    ELSE ""

C5_ApiErrorCarriesStatusAndHeaders ==
    (apc = "returned" /\ ~responseHandler.present /\ response # 0
     /\ result.err.type = "ApiError") =>
        /\ result.err.responseStatusCode = TerminalResponse.status
        /\ result.err.responseHeaders = HeadersOf(TerminalResponse)

\* C6: for a response with status < 400 every value-returning Send
\* operation returns (nil, nil) without calling the parse node factory
\* when the status is 204 or the body is empty, whatever the content type.
C6_NilOnNoContentOrEmptyBody ==
    (apc = "returned" /\ ~responseHandler.present /\ response # 0
     /\ sendOp # "SendNoContentAsync"
     /\ TerminalResponse.status < 400
     /\ (TerminalResponse.status = 204 \/ TerminalResponse.body = BodyEmpty)) =>
        /\ result = NoResult
        /\ factoryCalls = 0

\* C7: with a response handler option on the request, the handler is
\* invoked exactly once with the raw response and the error mappings, the
\* adapter's own error mapping and deserialization are skipped, and the
\* operation returns the handler's value and error, also when both are nil.
C7_ResponseHandlerResultReturned ==
    (Exited /\ responseHandler.present /\ response # 0) =>
        /\ apc = "returned"
        /\ handlerCalls = <<[response |-> response, errorMappings |-> errorMappings]>>
        /\ factoryCalls = 0
        /\ result.value = (IF sendOp = "SendNoContentAsync" THEN "nil" ELSE responseHandler.value)
        /\ result.err = (IF responseHandler.fails THEN HandlerError ELSE ErrNil)

\* C8: a Send operation called with a nil request-info returns an error
\* without calling the authentication provider and without dispatching.
C8_NilRequestInfoRejected ==
    (requestInfoNil /\ apc # "idle") =>
        /\ apc = "returned"
        /\ result.err.type = "error"
        /\ result.err.message = "requestInfo cannot be nil"
        /\ authCalls = <<>>
        /\ dispatched = 0
        /\ responses = <<>>

C8_Witness ==
    /\ requestInfoNil
    /\ apc = "returned"
    /\ sendOp = "SendNoContentAsync"
    /\ result.err.message = "requestInfo cannot be nil"

(***************************************************************************)
(* Properties of the retry handler.                                         *)
(***************************************************************************)

\* C9: for one intercepted request the retry handler dispatches at most
\* 1 + maxRetries requests; when every response is retryable and the call
\* returned a response, exactly 1 + maxRetries requests were dispatched and
\* the last response, still retryable, is returned without an error.
C9_RetryDispatchBound ==
    /\ Len(sentAttempts) <= 1 + retryOptions.maxRetries
    /\ (/\ rpc = "done"
        /\ retryResult.err = "nil"
        /\ \A i \in 1..Len(retryResponses) :
              ShouldRetry(retryOptions.shouldRetry, retryResponses[i].status)) =>
          /\ Len(sentAttempts) = 1 + retryOptions.maxRetries
          /\ retryResult.response = Len(retryResponses)
          /\ Len(retryResponses) = Len(sentAttempts)

C9_Witness ==
    /\ rpc = "done"
    /\ retryOptions.maxRetries = 3
    /\ Len(sentAttempts) = 4
    /\ retryResult = [response |-> 4, err |-> "nil"]
    /\ \A i \in 1..4 : retryResponses[i].status = 429

\* C10: the first request dispatched carries no Retry-Attempt header and
\* the k-th retry carries Retry-Attempt = k, which never exceeds
\* max-retries.
C10_RetryAttemptHeaderSequence ==
    \A i \in 1..Len(sentAttempts) :
        /\ i = 1 => sentAttempts[i] = ""
        /\ i > 1 => sentAttempts[i] = ToString(i - 1)
        /\ i - 1 <= retryOptions.maxRetries

C10_Witness ==
    /\ rpc = "done"
    /\ sentAttempts = <<"", "1", "2">>
    /\ retryResponses[3].status = 200

\* C11: when the request context is cancelled or its deadline passes while
\* the handler waits before a retry, the handler stops waiting, passes no
\* further request to the next handler, and returns a nil response with
\* the error of the context.
C11_CancelledWaitReturnsContextError ==
    /\ [][(rpc = "waiting" /\ ctxErr # "nil") =>
            /\ rpc' = "done"
            /\ sentAttempts' = sentAttempts
            /\ retryResult' = [response |-> 0, err |-> ctxErr]]_vars
    /\ (rpc = "waiting" /\ ctxErr # "nil") ~> (rpc = "done")

C11_Witness ==
    /\ rpc = "done"
    /\ ctxErr = "context deadline exceeded"
    /\ retryResult = [response |-> 0, err |-> "context deadline exceeded"]
    /\ Len(sentAttempts) = 1
    /\ retryResponses[1].status = 429

\* C12: a request is passed to the next handler again only after a
\* response for which ShouldRetry returned true: with the default policy a
\* first response other than 429 and 503 is returned after exactly one
\* dispatch, and with a callback that returns false so is a 429.
C12_RedispatchOnlyWhenShouldRetry ==
    LET policy == retryOptions.shouldRetry
        final(i) == /\ rpc = "done"
                    /\ Len(sentAttempts) = i
                    /\ retryResult = [response |-> i, err |-> "nil"]
    IN /\ \A i \in 1..Len(retryResponses) :
             (policy = "default" /\ retryResponses[i].status \notin {429, 503}) => final(i)
       /\ \A i \in 1..Len(retryResponses) :
             policy = "never" => (i = 1 /\ final(1))

C12_Witness ==
    /\ rpc = "done"
    /\ retryOptions.shouldRetry = "never"
    /\ retryResponses = <<[status |-> 429, closed |-> FALSE]>>
    /\ sentAttempts = <<"">>
    /\ retryResult = [response |-> 1, err |-> "nil"]

(***************************************************************************)
(* Properties of the redirect handler.                                      *)
(***************************************************************************)

\* The options that govern the call: those on the request context when
\* there are any, else those of the handler.
EffectiveRedirectOptions ==
    IF redirectReqOption # NoRequestOption THEN redirectReqOption ELSE redirectOptions

\* The call is over and the last answer of the next handler was a redirect
\* response with a Location header: every answer before it was one too,
\* since each of them was followed.
EveryResponseWasARedirect ==
    /\ dpc = "done"
    /\ redirectResult.err # "transport"
    /\ lastResponse.StatusCode \in {301, 302, 303, 307, 308}
    /\ lastResponse.Location # <<>>

\* C13 as stated: the handler follows at most min(configured max, 20)
\* redirects, and when every response is a redirect with a Location header
\* it dispatches exactly that maximum plus one requests and returns the
\* last redirect response with no error.
C13_FollowsAtMostConfiguredMax ==
    LET configured == EffectiveRedirectOptions.MaxRedirects
        max == IF configured < 20 THEN configured ELSE 20
    IN /\ redirectCount <= max
       /\ EveryResponseWasARedirect =>
             /\ nextCalls = max + 1
             /\ redirectResult = [response |-> lastResponse, err |-> "nil"]

\* C13, amended: a configured maximum below 1 stands for the default of 5,
\* so the handler follows at most 5 redirects then and min(configured
\* max, 20) otherwise; when every response is a redirect whose Location
\* parses and the should-redirect callback, if any, answers true, it
\* dispatches exactly that maximum plus one requests and returns the last
\* redirect response with no error.
C13_FollowsAtMostEffectiveMax ==
    LET configured == EffectiveRedirectOptions.MaxRedirects
        max == IF configured < 1 THEN 5 ELSE IF configured < 20 THEN configured ELSE 20
    IN /\ redirectCount <= max
       /\ nextCalls <= max + 1
       /\ (/\ EveryResponseWasARedirect
           /\ lastResponse.Location # <<":", "p">>
           /\ EffectiveRedirectOptions.ShouldRedirect # "false") =>
             /\ nextCalls = max + 1
             /\ redirectCount = max
             /\ redirectResult = [response |-> lastResponse, err |-> "nil"]

C13_Witness ==
    /\ dpc = "done"
    /\ redirectOptions.MaxRedirects = MaxRedirectsBound
    /\ redirectCount = 20
    /\ nextCalls = 21
    /\ redirectResult = [response |-> [StatusCode |-> 301, Location |-> <<"/", "p">>], err |-> "nil"]

\* A step in which the handler follows a redirect: it builds the request
\* for the redirect response just received and dispatches it.
RedirectFollowed ==
    nextCalls >= 1 /\ nextCalls' = nextCalls + 1

\* C14: the request built for a 303 has method GET, no body and neither a
\* Content-Type nor a Content-Length header; the request built for a 301,
\* 302, 307 or 308 keeps the method, the body and these two headers of the
\* request that was redirected.
C14_SeeOtherBecomesGet ==
    [][RedirectFollowed =>
        IF lastResponse'.StatusCode = 303
        THEN /\ req'.Method = "GET"
             /\ req'.Body = "nil"
             /\ req'.Header["Content-Type"] = ""
             /\ req'.Header["Content-Length"] = ""
        ELSE /\ lastResponse'.StatusCode \in {301, 302, 307, 308}
             /\ req'.Method = req.Method
             /\ req'.Body = req.Body
             /\ req'.Header["Content-Type"] = req.Header["Content-Type"]
             /\ req'.Header["Content-Length"] = req.Header["Content-Length"]]_vars

\* A POST with a body (its ContentLength field is still 4) has become a GET.
C14_Witness ==
    /\ dpc = "next"
    /\ redirectCount = 1
    /\ lastResponse.StatusCode = 303
    /\ req.ContentLength = 4
    /\ req.Method = "GET"
    /\ req.Body = "nil"
    /\ req.Header["Content-Type"] = ""

\* The target differs from the redirected request's URI in hostname or
\* scheme, compared without regard to case, or in port.
CrossesOrigin(originalURI, newURI) ==
    \/ FoldCase(Hostname(originalURI)) # FoldCase(Hostname(newURI))
    \/ FoldCase(originalURI.Scheme) # FoldCase(newURI.Scheme)
    \/ Port(originalURI) # Port(newURI)

\* C15: with the default scrub policy the request built for a redirect has
\* lost Authorization and Cookie if and only if the target differs in
\* hostname, scheme or port; otherwise both keep their values.
C15_DefaultScrubOnOriginChange ==
    [][(RedirectFollowed /\ redirectOptions.ScrubSensitiveHeaders = "nil") =>
        IF CrossesOrigin(req.URL, req'.URL)
        THEN /\ req'.Header["Authorization"] = ""
             /\ req'.Header["Cookie"] = ""
        ELSE /\ req'.Header["Authorization"] = req.Header["Authorization"]
             /\ req'.Header["Cookie"] = req.Header["Cookie"]]_vars

\* After a redirect to another port of the same host the headers are gone.
C15_Witness ==
    /\ dpc = "next"
    /\ redirectOptions.ScrubSensitiveHeaders = "nil"
    /\ redirectCount = 1
    /\ req.URL = [Scheme |-> <<"h", "t", "t", "p">>, Host |-> <<"a", ":", "8", "0", "8", "0">>, Path |-> <<"/", "p">>]
    /\ req.Header["Authorization"] = ""
    /\ req.Header["Cookie"] = ""

\* C16: with the default scrub policy the request built for a redirect
\* keeps Proxy-Authorization exactly when the pipeline has a transport
\* with a proxy function and that function returns a proxy URL for the
\* target; in every other case the header is removed.
C16_ProxyAuthorizationIffProxyActive ==
    [][(RedirectFollowed /\ redirectOptions.ScrubSensitiveHeaders = "nil") =>
        IF redirectPipeline \notin {"noAccessor", "nilTransport", "otherTransport", "nilProxy"}
           /\ proxyResult' = "url"
        THEN req'.Header["Proxy-Authorization"] = req.Header["Proxy-Authorization"]
        ELSE req'.Header["Proxy-Authorization"] = ""]_vars

\* The header survives a redirect to another host through an active proxy.
C16_Witness ==
    /\ dpc = "next"
    /\ redirectOptions.ScrubSensitiveHeaders = "nil"
    /\ redirectPipeline = "proxy"
    /\ proxyResult = "url"
    /\ redirectCount = 1
    /\ Hostname(req.URL) = <<"b">>
    /\ req.Header["Authorization"] = ""
    /\ req.Header["Proxy-Authorization"] = "Basic dXNlcjpwYXNz"

\* C17: a scrub callback configured on the handler is called exactly once
\* per followed redirect, with the clone, the URI of the redirected
\* request and the target URI, and the default policy is not applied then:
\* the headers it would strip remain.  Without a callback the default
\* policy is applied.
C17_CustomScrubReplacesDefault ==
    [][/\ ~RedirectFollowed => scrubCalls' = scrubCalls
       /\ RedirectFollowed =>
            IF redirectOptions.ScrubSensitiveHeaders # "nil"
            THEN /\ scrubCalls' = scrubCalls + 1
                 /\ scrubArgs'.originalURI = req.URL
                 /\ scrubArgs'.newURI = req'.URL
                 /\ scrubArgs'.request.URL = req'.URL
                 /\ \A n \in {"Authorization", "Cookie", "Proxy-Authorization"} :
                       /\ scrubArgs'.request.Header[n] = req.Header[n]
                       /\ req'.Header[n] = req.Header[n]
            ELSE /\ scrubCalls' = scrubCalls
                 /\ CrossesOrigin(req.URL, req'.URL) =>
                       req'.Header["Authorization"] = "" /\ req'.Header["Cookie"] = ""
                 /\ (redirectPipeline # "proxy" \/ proxyResult' # "url") =>
                       req'.Header["Proxy-Authorization"] = ""]_vars

\* Two redirects were followed, the first to another host: the callback
\* ran twice and the headers the default policy strips are still there.
C17_Witness ==
    /\ dpc = "next"
    /\ redirectOptions.ScrubSensitiveHeaders = "custom"
    /\ redirectCount = 2
    /\ scrubCalls = 2
    /\ Hostname(req.URL) = <<"b">>
    /\ req.Header["Authorization"] = "Bearer T"
    /\ req.Header["Proxy-Authorization"] = "Basic dXNlcjpwYXNz"
    /\ req.Header["X-Api-Key"] = ""

(***************************************************************************)
(* Properties of the compression handler.                                   *)
(***************************************************************************)

\* Compression is enabled for the request: by the option on its context
\* when there is one, by the handler's options otherwise.
CompressionEnabled ==
    IF compressionReqOption = "none" THEN enableCompression ELSE compressionReqOption = "enabled"

\* The first request passed on is the intercepted one, untouched.
ForwardedUnmodified ==
    sentRequests[1] = interceptedReq

\* The first request passed on carries Content-Encoding: gzip, a body that
\* is not the intercepted one, and the length of that body.
ForwardedCompressed ==
    /\ sentRequests[1].Header["Content-Encoding"] = Values(<<<<"g", "z", "i", "p">>>>)
    /\ sentRequests[1].Body # interceptedReq.Body
    /\ sentRequests[1].ContentLength = Len(sentRequests[1].Body.bytes)

\* C18 as stated: the request is forwarded unmodified, in one dispatch, if
\* and only if compression is disabled, the request has no body, a
\* Content-Range value contains "bytes", or Content-Encoding is present;
\* otherwise the dispatched request carries Content-Encoding: gzip and the
\* compressed size as its content length.
C18_SkipsIffDisabledNoBodyRangeOrEncoded ==
    LET ranges == interceptedReq.Header["Content-Range"].values
        skips == \/ ~CompressionEnabled
                 \/ interceptedReq.Body.isNil
                 \/ \E i \in 1..Len(ranges) : Contains(ranges[i], <<"b", "y", "t", "e", "s">>)
                 \/ interceptedReq.Header["Content-Encoding"].present
    IN /\ (cpc # "idle" /\ skips) => Len(sentRequests) = 1
       /\ Len(sentRequests) >= 1 =>
             IF skips THEN ForwardedUnmodified ELSE ForwardedCompressed

\* C18, amended: the Content-Range test is on the value in lower case, so
\* the request is also forwarded unmodified when a Content-Range value
\* contains "bytes" in any letter case.
C18_SkipsIffRangeInAnyCase ==
    LET ranges == interceptedReq.Header["Content-Range"].values
        skips == \/ ~CompressionEnabled
                 \/ interceptedReq.Body.isNil
                 \/ \E i \in 1..Len(ranges) : Contains(FoldCase(ranges[i]), <<"b", "y", "t", "e", "s">>)
                 \/ interceptedReq.Header["Content-Encoding"].present
    IN /\ (cpc # "idle" /\ skips) => Len(sentRequests) = 1
       /\ Len(sentRequests) >= 1 =>
             IF skips THEN ForwardedUnmodified ELSE ForwardedCompressed

\* A request with a body and Content-Range: BYTES 0-1/4 went out as it came.
C18_Witness ==
    /\ cpc = "forwarded"
    /\ CompressionEnabled
    /\ interceptedReq.Body = BodyOf(<<"d", "a", "t", "a">>)
    /\ interceptedReq.Header["Content-Range"] = Values(<<<<"B", "Y", "T", "E", "S", " ", "0", "-", "1", "/", "4">>>>)
    /\ ~interceptedReq.Header["Content-Encoding"].present
    /\ sentRequests = <<interceptedReq>>

\* C19: after a 415 answer to the compressed request the handler
\* dispatches exactly one more request, with the original body, the
\* original content length and no Content-Encoding, and returns whatever
\* that dispatch yields, a second 415 included; after any other answer it
\* has dispatched once.  No interception dispatches more than two requests.
C19_SingleFallbackOn415 ==
    /\ Len(sentRequests) <= 2
    /\ Len(compressionResponses) <= Len(sentRequests)
    /\ (Len(compressionResponses) >= 1 /\ ~ForwardedUnmodified) =>
          IF compressionResponses[1] = 415
          THEN /\ Len(sentRequests) = 2
               /\ sentRequests[2].Body = interceptedReq.Body
               /\ sentRequests[2].ContentLength = interceptedReq.ContentLength
               /\ ~sentRequests[2].Header["Content-Encoding"].present
               /\ Len(compressionResponses) = 2 =>
                     /\ cpc = "done"
                     /\ compressionResult = [response |-> 2, err |-> "nil"]
          ELSE /\ cpc = "done"
               /\ Len(sentRequests) = 1
               /\ compressionResult = [response |-> 1, err |-> "nil"]
    /\ (Len(compressionResponses) >= 1 /\ ForwardedUnmodified) =>
          /\ cpc = "done"
          /\ Len(sentRequests) = 1
          /\ compressionResult = [response |-> 1, err |-> "nil"]

\* Both the compressed request and its uncompressed repeat were answered
\* with 415, and the second answer is the result.
C19_Witness ==
    /\ cpc = "done"
    /\ compressionResponses = <<415, 415>>
    /\ Len(sentRequests) = 2
    /\ sentRequests[1].Header["Content-Encoding"] = Values(<<<<"g", "z", "i", "p">>>>)
    /\ sentRequests[2] = interceptedReq
    /\ compressionResult = [response |-> 2, err |-> "nil"]

(***************************************************************************)
(* Properties of the parameter-name decoding handler.                       *)
(***************************************************************************)

\* The values of a raw query: for each parameter, in order, the text after
\* its first '=' up to the next '&'; the empty text for a parameter
\* without '='.
ValuesOf(query) ==
    LET ps == Split(query, "&")
    IN [i \in 1..Len(ps) |->
          LET eq == IndexFrom(ps[i], "=", 1)
          IN IF eq = 0 THEN <<>> ELSE SubSeq(ps[i], eq + 1, Len(ps[i]))]

\* C20: after the handler has run, every parameter value of the raw query
\* is character for character the value of the input, also when it holds
\* a percent-encoding of a character of the decode set; only parameter
\* names are decoded.
C20_ValuesNotDecoded ==
    ppc # "idle" => ValuesOf(rawQuery) = ValuesOf(rawQueryIn)


(***************************************************************************)
(* Properties of the pipeline and of the url-replace, user-agent and chaos  *)
(* handlers.                                                                *)
(***************************************************************************)

\* Position of the first occurrence of token in s; 0 if there is none.
FirstOccurrence(s, token) ==
    IF Contains(s, token)
    THEN CHOOSE i \in 1..(Len(s) - Len(token) + 1) :
            /\ SubSeq(s, i, i + Len(token) - 1) = token
            /\ \A j \in 1..(i - 1) : SubSeq(s, j, j + Len(token) - 1) # token
    ELSE 0

\* s with the occurrence of token at position i, if i is not 0, replaced.
ReplacedAt(s, i, token, replacement) ==
    IF i = 0 THEN s
    ELSE SubSeq(s, 1, i - 1) \o replacement \o SubSeq(s, i + Len(token), Len(s))

\* path with, for each pair, the first occurrence of its token in path
\* replaced: the occurrences are replaced from right to left, so that the
\* positions found in path stay valid.
RECURSIVE EachFirstOccurrenceReplaced(_, _, _)
EachFirstOccurrenceReplaced(path, original, pairs) ==
    IF pairs = {} THEN path
    ELSE LET last == CHOOSE p \in pairs :
                        \A q \in pairs : FirstOccurrence(original, q[1]) <= FirstOccurrence(original, p[1])
         IN EachFirstOccurrenceReplaced(
                ReplacedAt(path, FirstOccurrence(original, last[1]), last[1], last[2]),
                original, pairs \ {last})

\* path after the pairs were applied one after the other, each to the
\* first occurrence of its token in the path as the pairs before left it.
RECURSIVE AppliedInOrder(_, _)
AppliedInOrder(path, order) ==
    IF order = <<>> THEN path
    ELSE AppliedInOrder(ReplacedAt(path, FirstOccurrence(path, Head(order)[1]), Head(order)[1], Head(order)[2]),
                        Tail(order))

\* A step of the url-replace handler, and whether it is enabled for the
\* request.
UrlReplaceStep ==
    nextHandlerIs({"urlReplace"}) /\ entered' # entered

UrlReplaceEnabled ==
    enabledFor(preq.urlReplaceOption, chain[middlewareIndex + 1].Enabled)

\* C21, as stated: an enabled url-replace handler with a non-empty map
\* passes on the path in which, for each pair, the first occurrence of the
\* token in the path it received is replaced, and nothing else of the
\* request is changed; a disabled handler, or an empty map, passes on the
\* request unchanged.
C21_FirstOccurrenceOfEachTokenReplaced ==
    [][UrlReplaceStep =>
          /\ preq' = [preq EXCEPT !.Path = preq'.Path]
          /\ preq'.Path = IF UrlReplaceEnabled /\ ReplacementPairs # {}
                          THEN EachFirstOccurrenceReplaced(preq.Path, preq.Path, ReplacementPairs)
                          ELSE preq.Path]_vars

\* C21, amended: the pairs are applied one after the other in some order,
\* each to the first occurrence of its token in the path as left by the
\* pairs applied before it.
C21_PairsAppliedOnceInSomeOrder ==
    [][UrlReplaceStep =>
          /\ preq' = [preq EXCEPT !.Path = preq'.Path]
          /\ IF UrlReplaceEnabled /\ ReplacementPairs # {}
             THEN \E order \in IterationOrders(ReplacementPairs) : preq'.Path = AppliedInOrder(preq.Path, order)
             ELSE preq'.Path = preq.Path]_vars

\* An enabled handler has replaced the first of two occurrences of the
\* token of the default map and has left the second.
C21_Witness ==
    /\ entered # <<>>
    /\ chain[1] = Handler("urlReplace", TRUE)
    /\ ReplacementPairs = {<<<<"/", "u", "s", "e", "r", "s", "/", "m", "e", "-", "t", "o", "k", "e", "n", "-", "t", "o", "-", "r", "e", "p", "l", "a", "c", "e">>, <<"/", "m", "e">>>>}
    /\ preq.Path = <<"/", "m", "e", "/", "x", "/", "u", "s", "e", "r", "s", "/", "m", "e", "-", "t", "o", "k", "e", "n", "-", "t", "o", "-", "r", "e", "p", "l", "a", "c", "e">>


\* The number of occurrences of token in s.
Occurrences(s, token) ==
    Cardinality({i \in 1..(Len(s) - Len(token) + 1) : SubSeq(s, i, i + Len(token) - 1) = token})

\* The positions of the user-agent handlers that have intercepted the
\* request, and whether the handler at a position is enabled for it.
UserAgentInterceptions ==
    {i \in 1..Len(entered) : chain[entered[i] + 1].kind = "userAgent"}

UserAgentEnabledAt(i) ==
    enabledFor(preq.userAgentOption, chain[entered[i] + 1].Enabled)

\* C22: after one or more interceptions of a request by enabled user-agent
\* handlers its User-Agent header holds the product token exactly once;
\* after any number of interceptions by disabled ones it does not hold it.
C22_ProductTokenOnce ==
    /\ (UserAgentInterceptions # {} /\ \A i \in UserAgentInterceptions : UserAgentEnabledAt(i))
          => Occurrences(preq.UserAgent, <<"k", "i", "o", "t", "a", "-", "g", "o", "/", "1", ".", "0">>) = 1
    /\ (\A i \in UserAgentInterceptions : ~UserAgentEnabledAt(i))
          => ~Contains(preq.UserAgent, <<"k", "i", "o", "t", "a", "-", "g", "o", "/", "1", ".", "0">>)

\* Three enabled handlers have intercepted a request that came with a
\* User-Agent value of the caller.
C22_Witness ==
    /\ Cardinality(UserAgentInterceptions) = 3
    /\ \A i \in UserAgentInterceptions : UserAgentEnabledAt(i)
    /\ preq.UserAgent = <<"a", "p", "p", "/", "2", " ", "k", "i", "o", "t", "a", "-", "g", "o", "/", "1", ".", "0">>


\* The kinds of the handlers of the chain, in order.
ChainKinds ==
    [i \in 1..Len(chain) |-> chain[i].kind]

\* C23: the default middleware chain of the client factory consists of
\* exactly six handlers in this order: retry, redirect, compression,
\* parameter-name decoding, user-agent, headers-inspection.
C23_DefaultChainOfSix ==
    (lpc # "idle" /\ factory = "GetDefaultClient")
        => ChainKinds = <<"retry", "redirect", "compression", "parametersNameDecoding",
                          "userAgent", "headersInspection">>


\* The request carries no per-request option, and the response comes from
\* the transport: no handler has answered in its place.
PlainPass ==
    /\ preq.urlReplaceOption = "none"
    /\ preq.userAgentOption = "none"
    /\ presponse.from = "transport"

\* C24: for a chain of N handlers over a terminal transport, a request with
\* no per-request options that no handler retries, redirects or
\* short-circuits has, when the round trip is over, entered each handler
\* exactly once in the order 0..N-1 and reached the transport exactly once,
\* and the handlers have seen its response in the order N-1..0.
C24_EachHandlerOnceInOrder ==
    (lpc = "done" /\ PlainPass)
        => /\ entered = [i \in 1..Len(chain) |-> i - 1]
           /\ roundTrips = 1
           /\ returned = [i \in 1..Len(chain) |-> Len(chain) - i]

C24_Witness ==
    /\ lpc = "done"
    /\ PlainPass
    /\ ChainKinds = <<"headersInspection", "chaos", "headersInspection">>
    /\ entered = <<0, 1, 2>>
    /\ returned = <<2, 1, 0>>
    /\ roundTrips = 1


\* The options that govern the request under the per-request override
\* protocol: the redirect option on the request context when there is one,
\* the options the handler was constructed with otherwise.
GoverningRedirectOptions ==
    IF redirectReqOption # NoRequestOption THEN redirectReqOption ELSE redirectOptions

\* C25: when an option with the handler's key is on the request context,
\* every configurable behaviour of the handler for that request comes from
\* that option and none from the constructor-time options; without one all
\* of them come from the constructor-time options.  For the redirect
\* handler: a redirect is followed only below the governing maximum and
\* with the consent of the governing should-redirect callback, and the
\* caller-supplied scrub callback is called exactly when the governing
\* options hold one.
C25_OptionsOfRequestGovern ==
    [][RedirectFollowed
         => /\ redirectCount < GetMaxRedirect(GoverningRedirectOptions)
            /\ shouldRedirect(GoverningRedirectOptions.ShouldRedirect)
            /\ (scrubCalls' = scrubCalls + 1)
                   <=> (GoverningRedirectOptions.ScrubSensitiveHeaders = "custom")]_vars


\* The value of the option added last under the key of the i-th option.
LatestUnderKeyOf(options, i) ==
    LET last == CHOOSE j \in 1..Len(options) :
                    /\ options[j].key = options[i].key
                    /\ \A k \in (j + 1)..Len(options) : options[k].key # options[i].key
    IN options[last].value

\* C26: every request option of the request-info is retrievable by its key
\* from the context of the dispatched request, on the first dispatch and on
\* the dispatch of the CAE retry; of two options under one key the one added
\* later is retrieved (so with pairwise distinct keys each option is
\* retrieved itself).
C26_EveryOptionOnDispatchedContext ==
    \A d \in 1..Len(dispatchedCtx) :
        \A i \in 1..Len(requestOptions) :
            Value(dispatchedCtx[d], requestOptions[i].key) = LatestUnderKeyOf(requestOptions, i)


\* A step of the Intercept of a chaos handler.
ChaosStep ==
    nextHandlerIs({"chaos"}) /\ entered' # entered

\* C27: a chaos handler with the Manual strategy answers every request,
\* whatever its percentage, with a synthesized response that has the
\* configured status, and never passes the request on to the next handler.
C27_ManualAlwaysAnswers ==
    [][(ChaosStep /\ chaosHandler.options.ChaosStrategy = "Manual")
         => /\ ~yielding'
            /\ presponse'.StatusCode = chaosHandler.options.StatusCode]_vars

\* The options the chaos constructor refuses.
InvalidChaosOptions(handlerOptions) ==
    \/ handlerOptions.ChaosPercentage < 0
    \/ handlerOptions.ChaosPercentage > 100
    \/ handlerOptions.ChaosStrategy = "Manual" /\ handlerOptions.StatusCode = 0

\* C28: NewChaosHandlerWithOptions returns an error and no handler when the
\* percentage is below 0 or above 100, or when the strategy is Manual and
\* the status code is 0; otherwise it returns a handler and no error.
C28_ConstructorValidates ==
    IF InvalidChaosOptions(chaosHandler.options)
    THEN chaosHandler.isNil /\ chaosHandler.err # "nil"
    ELSE ~chaosHandler.isNil /\ chaosHandler.err = "nil"

C28_Witness ==
    /\ lpc = "constructed"
    /\ chaosHandler.options.ChaosStrategy = "Manual"
    /\ chaosHandler.options.StatusCode = 0
    /\ chaosHandler.options.ChaosPercentage = 40
    /\ chaosHandler.isNil
    /\ chaosHandler.err = "invalid status code for manual strategy"


\* C29: the redirect and retry handlers drain and close the body of every
\* response they discard.  For the redirect handler: when Intercept has
\* returned, the body of each redirect response it followed is closed, and
\* the only body still open is that of the response it returned.
C29_DiscardedBodiesClosed ==
    dpc = "done" => openBodies <= 1


\* pipeline.Next returns a response to the redirect handler.
RedirectResponseReceived ==
    dpc = "next" /\ openBodies' = openBodies + 1

\* C30: when the should-redirect callback answers false for a response, the
\* redirect handler returns that response unfollowed and without error
\* after exactly one dispatch, even if it is a 3xx with a Location header;
\* when no callback is configured, every redirect response below the
\* maximum is followed.
C30_ShouldRedirectHonoured ==
    [][RedirectResponseReceived
         => /\ GoverningRedirectOptions.ShouldRedirect = "false"
                  => /\ dpc' = "done"
                     /\ redirectResult' = [response |-> lastResponse', err |-> "nil"]
                     /\ nextCalls' = 1
            /\ (/\ GoverningRedirectOptions.ShouldRedirect = "nil"
                /\ isRedirectResponse(lastResponse')
                /\ redirectCount < GetMaxRedirect(GoverningRedirectOptions))
                  => redirectCount' = redirectCount + 1]_vars

C30_Witness ==
    /\ dpc = "done"
    /\ redirectReqOption = NoRequestOption
    /\ redirectOptions.ShouldRedirect = "false"
    /\ lastResponse = [StatusCode |-> movedPermanently, Location |-> <<"/", "p">>]
    /\ redirectResult = [response |-> lastResponse, err |-> "nil"]
    /\ nextCalls = 1


\* getRedirectRequest has been called for the request req.
RedirectRequestBuilt ==
    dpc = "next" /\ redirectCount' = redirectCount + 1

\* C31: building the request for a redirect leaves the redirected request
\* unchanged: its URL, method, body and header map are the same after
\* getRedirectRequest as before; the header removals and the method and
\* body change of a 303 apply to the clone only.
C31_RedirectedRequestUnchanged ==
    [][RedirectRequestBuilt => redirectedRequest' = req]_vars

C31_Witness ==
    /\ nextCalls = 2
    /\ lastResponse.StatusCode = seeOther
    /\ redirectedRequest.Method = "POST"
    /\ redirectedRequest.Body = "body"
    /\ redirectedRequest.Header["Authorization"] = "Bearer T"
    /\ redirectedRequest.Header["Content-Type"] = "text/plain"
    /\ req.Method = "GET"
    /\ req.Body = "nil"
    /\ req.Header["Authorization"] = ""
    /\ req.Header["Content-Type"] = ""


\* The two-digit hex encoding of a byte of a decode set, in upper case.
TwoDigitHex(b) ==
    CASE b = "$" -> <<"2", "4">>
      [] b = "-" -> <<"2", "D">>
      [] b = "." -> <<"2", "E">>
      [] b = "~" -> <<"7", "E">>
      [] b = "\n" -> <<"0", "A">>

\* The raw query with every '%' and two-digit hex encoding (in either
\* case) of a byte of the set replaced by the byte, and nothing else changed.
RECURSIVE PercentDecoded(_, _)
PercentDecoded(q, set) ==
    IF q = <<>> THEN <<>>
    ELSE IF /\ Len(q) >= 3
            /\ q[1] = "%"
            /\ \E i \in 1..Len(set) : FoldCase(SubSeq(q, 2, 3)) = FoldCase(TwoDigitHex(set[i]))
    THEN <<set[CHOOSE i \in 1..Len(set) : FoldCase(SubSeq(q, 2, 3)) = FoldCase(TwoDigitHex(set[i]))]>>
         \o PercentDecoded(SubSeq(q, 4, Len(q)), set)
    ELSE <<q[1]>> \o PercentDecoded(Tail(q), set)

\* The options that govern the request: those on its context, or those of
\* the handler.
GoverningDecodingOptions ==
    IF decodingReqOption = NoDecodingOption THEN decodingOptions ELSE decodingReqOption

\* C32: for every byte of the configured decode set, bytes below 0x10
\* included, the handler replaces each '%' followed by the two-digit hex
\* encoding of the byte (upper or lower case) in the raw query with the
\* byte and changes no other character of it; disabled or with an empty set
\* it leaves the raw query unchanged.
C32_EncodedBytesOfSetDecoded ==
    ppc # "idle"
        => rawQuery = IF GoverningDecodingOptions.Enable
                      THEN PercentDecoded(rawQueryIn, GoverningDecodingOptions.ParametersToDecode)
                      ELSE rawQueryIn


\* 2^n
RECURSIVE Pow2(_)
Pow2(n) ==
    IF n = 0 THEN 1 ELSE 2 * Pow2(n - 1)

\* C33: without a usable Retry-After header the wait before the k-th retry
\* is the base delay times 2^(k-1) seconds (1, 2 and 4 s, 7 s in total, with
\* base 1 s and three retries); after a Retry-After header of integer
\* seconds the wait is at least that many seconds.
C33_ExponentialBackoff ==
    \A k \in 1..Len(waits) :
        /\ waits[k].retryAfter.kind \in {"none", "garbage"}
               => waits[k].seconds = retryOptions.delaySeconds * Pow2(k - 1)
        /\ waits[k].retryAfter.kind = "seconds"
               => waits[k].seconds >= waits[k].retryAfter.seconds

C33_Witness ==
    /\ rpc = "done"
    /\ retryOptions.delaySeconds = 1
    /\ retryOptions.maxRetries = 3
    /\ Len(waits) = 3
    /\ \A k \in 1..3 : waits[k].retryAfter.kind = "none"
    /\ waits[1].seconds = 1 /\ waits[2].seconds = 2 /\ waits[3].seconds = 4
    /\ waits[1].seconds + waits[2].seconds + waits[3].seconds = 7


\* The chaos handler answers with the Random strategy, without a configured
\* status code and without a configured response.
RandomChaosAnswer ==
    /\ ChaosStep
    /\ chaosHandler.options.ChaosStrategy = "Random"
    /\ chaosHandler.options.StatusCode = 0
    /\ chaosHandler.options.ResponseBody = 0
    /\ (~yielding' \/ lpc' = "panicked")

\* C34: under the Random strategy with no configured status code and no
\* matching status-map entry, for every request method the synthesized
\* response has a valid HTTP status code in 400..599 taken from the status
\* list of the method, and synthesizing it never fails.
C34_RandomStatusValid ==
    [][RandomChaosAnswer
         => /\ lpc' # "panicked"
            /\ presponse'.StatusCode \in 400..599
            /\ presponse'.StatusCode \in methodStatusCode(preq.Method)]_vars


\* The proxy-authentication handlers the request has passed, and those of
\* them that have credentials.
ProxyInterceptions ==
    {i \in 1..Len(entered) : chain[entered[i] + 1].kind = "proxyAuthentication"}

ProxyInterceptionsWithCredentials ==
    {i \in ProxyInterceptions : chain[entered[i] + 1].Enabled}

\* C35: after the proxy-authentication handler has intercepted a request
\* with user name and password present, Proxy-Authorization has exactly one
\* value, 'Basic ' followed by base64(user:pass), and Content-Type has
\* exactly one value, application/x-www-form-urlencoded, also when the
\* request passes through the handler more than once; without credentials
\* the handler changes no header.
C35_ProxyHeadersSetOnce ==
    IF ProxyInterceptionsWithCredentials # {}
    THEN /\ preq.ProxyAuthorization = <<<<"B", "a", "s", "i", "c", " ", "d", "X", "N", "l", "c", "j", "p", "w", "Y", "X", "N", "z">>>>
         /\ preq.ContentType = <<"application/x-www-form-urlencoded">>
    ELSE preq.ProxyAuthorization = <<>> /\ preq.ContentType = <<>>


\* A step of an Intercept call of some handler of the chain.
InterceptStep ==
    lpc = "running" /\ (entered' # entered \/ returned' # returned)

\* C36: no Intercept call writes to the constructor-time options of its
\* handler or to process-wide state (so that, under any interleaving of
\* concurrent requests through one chain, a request is handled as if it ran
\* alone).
C36_InterceptWritesNoSharedState ==
    [][InterceptStep
         => /\ authenticationHeader' = authenticationHeader
            /\ chaosHandler' = chaosHandler
            /\ ReplacementPairs' = ReplacementPairs
            /\ chain' = chain]_vars

\* The maximum the claim gives for a configured value.
StatedMaxRedirect(configured) ==
    IF configured < 1 THEN 5 ELSE IF configured > 20 THEN 20 ELSE configured

\* C37: the effective maximum number of redirects is always in 1..20: a
\* configured value below 1 or a nil options pointer gives 5, a value above
\* 20 gives 20, a value in 1..20 is used as is; the handler never follows
\* more redirects than that, and no value makes it follow none: when every
\* answer was a redirect that could be followed, at least one was.
C37_EffectiveMaxInRange ==
    LET effective == GetMaxRedirect(GoverningRedirectOptions)
    IN /\ effective \in 1..20
       /\ effective = StatedMaxRedirect(GoverningRedirectOptions.MaxRedirects)
       /\ GetMaxRedirect(<<>>) = 5
       /\ redirectCount <= effective
       /\ (/\ EveryResponseWasARedirect
           /\ GoverningRedirectOptions.ShouldRedirect # "false") => redirectCount >= 1

C37_Witness ==
    /\ dpc = "done"
    /\ redirectOptions.MaxRedirects = -1
    /\ redirectReqOption = NoRequestOption
    /\ redirectCount = 5
    /\ nextCalls = 6

\* The request carries neither Authorization nor Cookie.
CredentialsGone(rq) ==
    rq.Header["Authorization"] = "" /\ rq.Header["Cookie"] = ""

\* C38: with the default scrub policy, along the redirects followed in one
\* Intercept call, once a hop has crossed to another host, scheme or port
\* no later request carries the Authorization or Cookie header of the
\* first request, also when a later hop leads back to the original host:
\* the request built for a crossing hop has lost both, and the request
\* built from one that has lost them never has them again.
C38_CredentialsStayScrubbed ==
    [][(RedirectFollowed /\ redirectOptions.ScrubSensitiveHeaders = "nil") =>
        /\ CrossesOrigin(req.URL, req'.URL) => CredentialsGone(req')
        /\ CredentialsGone(req) => CredentialsGone(req')]_vars

\* The second hop led back to the host of the first request (http://a/x)
\* after the first had left it: the headers are still gone.
C38_Witness ==
    /\ dpc = "next"
    /\ redirectOptions.ScrubSensitiveHeaders = "nil"
    /\ redirectCount = 2
    /\ req.URL = [Scheme |-> <<"h", "t", "t", "p">>, Host |-> <<"A">>, Path |-> <<"/", "p">>]
    /\ CredentialsGone(req)

\* The adapter has just received a 401 whose WWW-Authenticate header
\* starts with Bearer.
BearerChallengeReceived ==
    /\ apc = "dispatch"
    /\ dispatched' = dispatched + 1
    /\ Len(responses') = Len(responses) + 1
    /\ responses'[Len(responses')].status = 401
    /\ HasPrefix(responses'[Len(responses')].wwwAuthenticate, <<"B", "e", "a", "r", "e", "r", " ">>)

\* C39: for every 401 whose WWW-Authenticate header starts with Bearer,
\* whatever the form of its parameters, the adapter goes on without
\* failure: it either starts the single retry with a non-empty claims
\* value or hands the 401 to the normal handling of the response.
C39_BearerChallengeNeverFails ==
    [][BearerChallengeReceived
         => \/ apc' = "authenticate" /\ claims = <<>> /\ claims' # <<>>
            \/ apc' = "respond" /\ claims' = claims]_vars

(***************************************************************************)
(* Properties of the default chain.                                         *)
(***************************************************************************)

\* (1 + maxRetries) x (1 + effective max redirects) x 2
StatedRoundTripBound ==
    LET configured == chainOptions.MaxRedirects
        effective == IF configured < 1 THEN 5 ELSE IF configured > 20 THEN 20 ELSE configured
    IN (1 + chainOptions.maxRetries) * (1 + effective) * 2

\* C40: one request through the default chain ends after at most
\* (1 + maxRetries) x (1 + effective max redirects) x 2 round trips of the
\* transport, whatever the server answers: the count never exceeds the
\* bound, and a request is with the transport only below it.
C40_RoundTripsBounded ==
    /\ transportRoundTrips <= StatedRoundTripBound
    /\ tpc = "transport" => transportRoundTrips < StatedRoundTripBound
    /\ chainAttempt <= chainOptions.maxRetries

\* Every dispatch was answered with 415 and repeated, every answer after
\* that was a redirect or retried: the bound of 3 x 3 x 2 is reached.
C40_Witness ==
    /\ tpc = "done"
    /\ chainOptions.maxRetries = 2
    /\ chainOptions.MaxRedirects = 2
    /\ chainAttempt = 2
    /\ chainRedirects = 2
    /\ transportRoundTrips = 18

====
